---- MODULE Spec2Model ----
(***************************************************************************)
(* Model of the session event-reconciliation engine and session registry   *)
(* of src/src/server/agent-session.ts.                                      *)
(*                                                                         *)
(* Program state: the SessionManager (sessions in Map insertion order, the  *)
(* active pointer) and one Session record per id.  A Session object lives   *)
(* on after it is removed from the registry (its driving loop still holds   *)
(* it), so the records are kept per id and `sessions` is only membership.   *)
(*                                                                         *)
(* Process state (`proc`): where every suspended async function of a        *)
(* session stands: the driving loops between guard and finally, the start   *)
(* requests suspended on the termination promise, the message generator,    *)
(* the interrupt call awaiting the runtime, and the runtime's own protocol  *)
(* position (turns received, terminal results emitted).                     *)
(*                                                                         *)
(* Text is a sequence of one-character strings.  Timestamps and durations   *)
(* (Date.now()) are left out.  `out` is the sequence of notifications the   *)
(* last step broadcast.  A call of the API that returns without an effect   *)
(* is a stuttering step; what a call returns is an operator of the state    *)
(* it is made in (deleteSessionResult, interruptResult, ...).               *)
(*                                                                         *)
(* Tool tracking: a ToolRecord is the `tool` of a tool_use segment, the    *)
(* three lookup maps of the Session are functions, and `undefined` text is *)
(* the value Undefined.  JSON.parse is a scanner over a small JSON         *)
(* grammar; parsePartialJson, whose file is not part of src/, follows the  *)
(* policy the specification gives for it.                                  *)
(*                                                                         *)
(* The renderer: `client` is the state of the hook useClaudeChat of        *)
(* src/src/renderer/hooks/useClaudeChat.ts, which takes the notifications  *)
(* of every step in their order; Detached when no renderer listens.        *)
(***************************************************************************)
EXTENDS Integers, Sequences, FiniteSets, TLC

\* ---------------------------------------------------------------- bounds
MaxSessions == 2
MaxRegistryTurns == 1
MaxTurns == 2
MaxEvents == 1
MaxLoopTurns == 3

MaxToolTurns == 1

MaxSubagentEvents == 3

MaxInputEvents == 3

MaxTurnsInputEvents == 4

MaxLogTurns == 2

MaxLogEvents == 2

MaxStopTurns == 1

MaxStopEvents == 2

MaxPairTurns == 2

MaxPairEvents == 1

MaxRingLines == 2002

MaxThinkingTurns == 2

MaxThinkingEvents == 3

MaxTextTurns == 2

MaxTextEvents == 3

MaxReuseTurns == 1

MaxReuseEvents == 3

MaxResultEvents == 4

MaxBackfillEvents == 4

MaxMalformedEvents == 4

MaxClientTurns == 2


MaxReplays == 2

MaxLiveTurns == 2

MaxMirrorTurns == 2

MaxMirrorEvents == 3

\* ------------------------------------------------------ program constants
LogLineLimit == 2000
NameLimit == 30
NoSession == 0

SessionIds == 1..MaxSessions
SessionStates == {"idle", "running", "error"}

\* ------------------------------------------------------------------ state
VARIABLES sessions, activeSessionId, created, session, proc, out, client

vars == <<sessions, activeSessionId, created, session, proc, out, client>>

\* ---------------------------------------------------------------- helpers
SeqToSet(q) == {q[i] : i \in 1..Len(q)}

IsPrefix(p, q) == Len(p) <= Len(q) /\ \A i \in 1..Len(p) : p[i] = q[i]

Min(a, b) == IF a < b THEN a ELSE b

\* One broadcast(type, payload, sessionId) call; the payload is cut down to
\* a string and a number.
Bc(type, sid, arg, n) == [type |-> type, sid |-> sid, arg |-> arg, n |-> n]

Emit(S, type, arg, n) == [S EXCEPT !.out = Append(@, Bc(type, S.id, arg, n))]

\* String.prototype.trim on a character sequence.
RECURSIVE TrimLeft(_)
TrimLeft(t) == IF t # <<>> /\ Head(t) \in {" ", "\n"} THEN TrimLeft(Tail(t)) ELSE t

RECURSIVE TrimRight(_)
TrimRight(t) ==
    IF t # <<>> /\ t[Len(t)] \in {" ", "\n"} THEN TrimRight(SubSeq(t, 1, Len(t) - 1)) ELSE t

Trim(t) == TrimRight(TrimLeft(t))

\* firstMessage.substring(0, 30).split(/[<U+3002>\n]/)[0] + (length > 30 ? '...' : '')
\* The ideographic full stop U+3002 is written "<U+3002>", one character.
NameSeparators == {"<U+3002>", "\n"}

RECURSIVE UpToSeparator(_)
UpToSeparator(t) ==
    IF t = <<>> \/ Head(t) \in NameSeparators THEN <<>>
    ELSE <<Head(t)>> \o UpToSeparator(Tail(t))

autoGenerateName(firstMessage) ==
    UpToSeparator(SubSeq(firstMessage, 1, Min(Len(firstMessage), NameLimit)))
        \o (IF Len(firstMessage) > NameLimit THEN <<".", ".", ".">> ELSE <<>>)

\* ------------------------------------------------------------ the Session
DefaultName == <<"S">>

StringContent(t) == [isString |-> TRUE, text |-> t, blocks |-> <<>>]

ArrayContent(b) == [isString |-> FALSE, text |-> <<>>, blocks |-> b]

MessageWire(id, role, content) == [id |-> id, role |-> role, content |-> content]

TextBlock(t) ==
    [type |-> "text", text |-> t, thinkingStreamIndex |-> -1, isComplete |-> FALSE]

ThinkingBlock(index) ==
    [type |-> "thinking", text |-> <<>>, thinkingStreamIndex |-> index, isComplete |-> FALSE]

\* new Session(): the field initialisers of the class.
NewSession(id) ==
    [id |-> id,
     name |-> DefaultName,
     sessionState |-> "idle",
     querySession |-> FALSE,
     isProcessing |-> FALSE,
     shouldAbortSession |-> FALSE,
     sessionTerminationPromise |-> "null",
     isInterruptingResponse |-> FALSE,
     isStreamingMessage |-> FALSE,
     messages |-> <<>>,
     streamIndexToToolId |-> <<>>,
     toolResultIndexToId |-> <<>>,
     childToolToParent |-> <<>>,
     messageSequence |-> 0,
     logLines |-> <<>>,
     messageQueue |-> <<>>,
     out |-> <<>>]

\* The async functions of one session and the runtime at the other end.
\*   activeLoops   executions of startStreamingSession past the guard and
\*                 before the finally block
\*   startsSettled / startsUnsettled
\*                 start requests suspended on `await sessionTerminationPromise`,
\*                 by whether the awaited promise has resolved
\*   gen, held     the live loop's messageGenerator and the item it has
\*                 yielded and not yet resolved (-1: none)
\*   zombies       generators of ended loops still inside the polling promise
\*   zombieHeld    items such a generator yielded to its ended runtime
\*   interrupts    interruptCurrentResponse calls awaiting interrupt()
\*   yielded       ids of the turns yielded so far, in order
\*   resolved      ids of the turns whose completion promise has resolved
\*   handed, results
\*                 turns received and terminal results emitted by the live runtime
\*   turns, events turns accepted by enqueueUserMessage and runtime events
\*                 consumed so far
\*   started       per stream index, the top-level tool the live runtime last
\*                 opened there: the one it means its next argument delta for
\*   sentTo        per top-level tool id, the argument deltas the live runtime
\*                 has sent for it, concatenated
NewProc ==
    [activeLoops |-> 0,
     startsSettled |-> 0,
     startsUnsettled |-> 0,
     gen |-> "none",
     held |-> -1,
     zombies |-> 0,
     zombieHeld |-> {},
     interrupts |-> 0,
     yielded |-> <<>>,
     resolved |-> {},
     handed |-> 0,
     results |-> 0,
     turns |-> 0,
     events |-> 0,
     started |-> <<>>,
     sentTo |-> <<>>]

isSessionActive(S) == S.isProcessing \/ S.querySession

setSessionState(S, nextState) ==
    IF S.sessionState = nextState THEN S
    ELSE Emit([S EXCEPT !.sessionState = nextState], "chat:status", nextState, 0)

updateNameFromFirstMessage(S) ==
    IF Len(S.messages) = 1 /\ S.messages[1].role = "user"
    THEN [S EXCEPT !.name =
            autoGenerateName(IF S.messages[1].content.isString
                             THEN S.messages[1].content.text ELSE <<>>)]
    ELSE S

\* A ring that gives up the newest line when it is full; the ring property
\* must tell it from the real one.
appendLogLineDropNewest(S, line) ==
    LET pushed == Append(S.logLines, line)
        kept == IF Len(pushed) > LogLineLimit THEN SubSeq(pushed, 1, LogLineLimit) ELSE pushed
    IN Emit([S EXCEPT !.logLines = kept], "chat:log", line, 0)

appendLogLine(S, line) ==
    LET pushed == Append(S.logLines, line)
        kept == IF Len(pushed) > LogLineLimit THEN Tail(pushed) ELSE pushed
    IN Emit([S EXCEPT !.logLines = kept], "chat:log", line, 0)

\* The stored record carries no pending broadcasts.
Stored(S) == [S EXCEPT !.out = <<>>]

Known(id) == id \in SeqToSet(sessions)

RECURSIVE SumOver(_, _)
SumOver(f, n) == IF n = 0 THEN 0 ELSE f[n] + SumOver(f, n - 1)

\* Turns accepted and runtime events consumed so far, over all sessions.
TotalTurns == SumOver([s \in SessionIds |-> proc[s].turns], MaxSessions)

TotalEvents == SumOver([s \in SessionIds |-> proc[s].events], MaxSessions)


\* ----------------------------------------------------------- message log
LastMessage(S) == S.messages[Len(S.messages)]

\* A lookup that takes the last message whenever it is an assistant
\* message, streaming or not; the text property must tell it from the real
\* one.
ensureAssistantMessageAnyLast(S) ==
    IF Len(S.messages) > 0 /\ LastMessage(S).role = "assistant"
    THEN [S EXCEPT !.isStreamingMessage = TRUE]
    ELSE [S EXCEPT !.messages =
                       Append(@, MessageWire(S.messageSequence, "assistant", StringContent(<<>>))),
                   !.messageSequence = @ + 1,
                   !.isStreamingMessage = TRUE]

\* Afterwards the assistant message of the current turn cycle is the last
\* message of the log.
ensureAssistantMessage(S) ==
    IF Len(S.messages) > 0 /\ LastMessage(S).role = "assistant" /\ S.isStreamingMessage
    THEN S
    ELSE [S EXCEPT !.messages =
                       Append(@, MessageWire(S.messageSequence, "assistant", StringContent(<<>>))),
                   !.messageSequence = @ + 1,
                   !.isStreamingMessage = TRUE]

\* A promotion that starts from an empty segment sequence; the promotion
\* property must tell it from the real one.
ensureContentArrayEmpty(S) ==
    IF LastMessage(S).content.isString
    THEN [S EXCEPT !.messages[Len(S.messages)].content = ArrayContent(<<>>)]
    ELSE S

\* ensureContentArray applied to the last message.
ensureContentArray(S) ==
    LET m == LastMessage(S) IN
    IF m.content.isString
    THEN [S EXCEPT !.messages[Len(S.messages)].content =
            ArrayContent(IF m.content.text # <<>> THEN <<TextBlock(m.content.text)>> ELSE <<>>)]
    ELSE S

appendTextChunk(S0, chunk) ==
    LET S == ensureAssistantMessage(S0)
        n == Len(S.messages)
        c == S.messages[n].content
        k == Len(c.blocks)
    IN IF c.isString
       THEN [S EXCEPT !.messages[n].content.text = @ \o chunk]
       ELSE IF k > 0 /\ c.blocks[k].type = "text"
            THEN [S EXCEPT !.messages[n].content.blocks[k].text = @ \o chunk]
            ELSE [S EXCEPT !.messages[n].content.blocks = Append(@, TextBlock(chunk))]

handleThinkingStart(S0, index) ==
    LET S == ensureContentArray(ensureAssistantMessage(S0))
    IN [S EXCEPT !.messages[Len(S.messages)].content.blocks = Append(@, ThinkingBlock(index))]

OpenThinking(block, index) ==
    block.type = "thinking" /\ block.thinkingStreamIndex = index /\ ~block.isComplete

\* contentArray.find(...): the position of the first open thinking block
\* of that stream index, 0 when there is none.
FirstOpenThinking(blocks, index) ==
    IF \E i \in 1..Len(blocks) : OpenThinking(blocks[i], index)
    THEN CHOOSE i \in 1..Len(blocks) :
             /\ OpenThinking(blocks[i], index)
             /\ \A j \in 1..(i - 1) : ~OpenThinking(blocks[j], index)
    ELSE 0

handleThinkingChunk(S0, index, delta) ==
    LET S == ensureContentArray(ensureAssistantMessage(S0))
        n == Len(S.messages)
        k == FirstOpenThinking(S.messages[n].content.blocks, index)
    IN IF k > 0
       THEN [S EXCEPT !.messages[n].content.blocks[k].text = @ \o delta]
       ELSE S

handleMessageComplete(S) ==
    setSessionState([S EXCEPT !.isStreamingMessage = FALSE], "idle")

CompleteThinking(block) ==
    IF block.type = "thinking" /\ ~block.isComplete
    THEN [block EXCEPT !.isComplete = TRUE]
    ELSE block

RECURSIVE CompleteAll(_)
CompleteAll(blocks) ==
    IF blocks = <<>> THEN <<>>
    ELSE <<CompleteThinking(Head(blocks))>> \o CompleteAll(Tail(blocks))

handleMessageStopped(S0) ==
    LET S == setSessionState([S0 EXCEPT !.isStreamingMessage = FALSE], "idle")
        n == Len(S.messages)
    IN IF n = 0 \/ LastMessage(S).role # "assistant" \/ LastMessage(S).content.isString
       THEN S
       ELSE [S EXCEPT !.messages[n].content.blocks = CompleteAll(@)]

\* An error turn that takes the next id and leaves the counter; the id
\* property must tell it from the real one.
handleMessageErrorSameId(S0, error) ==
    LET S == setSessionState([S0 EXCEPT !.isStreamingMessage = FALSE], "idle")
    IN [S EXCEPT !.messages =
                     Append(@, MessageWire(S.messageSequence, "assistant",
                                           StringContent(<<"E", "r", "r", "o", "r", ":", " ">> \o error)))]

ErrorPrefix == <<"E", "r", "r", "o", "r", ":", " ">>

handleMessageError(S0, error) ==
    LET S == setSessionState([S0 EXCEPT !.isStreamingMessage = FALSE], "idle")
    IN [S EXCEPT !.messages =
                     Append(@, MessageWire(S.messageSequence, "assistant",
                                           StringContent(ErrorPrefix \o error))),
                 !.messageSequence = @ + 1]


\* ------------------------------------------------------------------ JSON
\* JSON texts over a small alphabet: a number is a run of digits, a string
\* has no escapes, an object has at most one member, and spaces may stand
\* between tokens.  A parsed value is written as JSON.stringify would print
\* it (no spaces between tokens), so parsing is not the identity.
JsonDigits == {"1"}

JsonDead == <<"dead", 0, FALSE>>

\* One character c read in scanner state st with depth objects open: the
\* next state, the next depth, and whether c belongs to the printed value.
\* The states: "value" before a value, "num" and "str" inside a number and
\* a string value, "open" after an opening brace, "key" inside a member
\* name, "colon" after it, "end" after a complete value.
JsonStep(st, depth, c) ==
    CASE st = "value" ->
             (IF c = " " THEN <<"value", depth, FALSE>>
              ELSE IF c \in JsonDigits THEN <<"num", depth, TRUE>>
              ELSE IF c = "\"" THEN <<"str", depth, TRUE>>
              ELSE IF c = "{" THEN <<"open", depth + 1, TRUE>>
              ELSE JsonDead)
      [] st = "num" ->
             (IF c \in JsonDigits THEN <<"num", depth, TRUE>>
              ELSE IF c = " " THEN <<"end", depth, FALSE>>
              ELSE IF c = "}" /\ depth > 0 THEN <<"end", depth - 1, TRUE>>
              ELSE JsonDead)
      [] st = "str" -> <<IF c = "\"" THEN "end" ELSE "str", depth, TRUE>>
      [] st = "open" ->
             (IF c = " " THEN <<"open", depth, FALSE>>
              ELSE IF c = "}" THEN <<"end", depth - 1, TRUE>>
              ELSE IF c = "\"" THEN <<"key", depth, TRUE>>
              ELSE JsonDead)
      [] st = "key" -> <<IF c = "\"" THEN "colon" ELSE "key", depth, TRUE>>
      [] st = "colon" ->
             (IF c = " " THEN <<"colon", depth, FALSE>>
              ELSE IF c = ":" THEN <<"value", depth, TRUE>>
              ELSE JsonDead)
      [] st = "end" ->
             (IF c = " " THEN <<"end", depth, FALSE>>
              ELSE IF c = "}" /\ depth > 0 THEN <<"end", depth - 1, TRUE>>
              ELSE JsonDead)
      [] OTHER -> JsonDead

\* The scan of t from position i on; ok is FALSE where JSON.parse throws.
RECURSIVE JsonScan(_, _, _, _, _)
JsonScan(t, i, st, depth, printed) ==
    IF i > Len(t)
    THEN [ok |-> st \in {"num", "end"} /\ depth = 0,
          value |-> IF st \in {"num", "end"} /\ depth = 0 THEN printed ELSE <<>>]
    ELSE LET step == JsonStep(st, depth, t[i])
         IN JsonScan(t, i + 1, step[1], step[2],
                     IF step[3] THEN Append(printed, t[i]) ELSE printed)

\* JSON.parse.
JsonParse(t) == JsonScan(t, 1, "value", 0, <<>>)

\* The closers a prefix lacks, innermost first: the quote of an open string,
\* then a brace for every open object.
RECURSIVE JsonClosers(_, _, _, _)
JsonClosers(t, i, inString, depth) ==
    IF i > Len(t)
    THEN (IF inString THEN <<"\"">> ELSE <<>>) \o [n \in 1..depth |-> "}"]
    ELSE IF inString THEN JsonClosers(t, i + 1, t[i] # "\"", depth)
    ELSE IF t[i] = "\"" THEN JsonClosers(t, i + 1, TRUE, depth)
    ELSE IF t[i] = "{" THEN JsonClosers(t, i + 1, FALSE, depth + 1)
    ELSE IF t[i] = "}" /\ depth > 0 THEN JsonClosers(t, i + 1, FALSE, depth - 1)
    ELSE JsonClosers(t, i + 1, FALSE, depth)

JsonHeal(t) == t \o JsonClosers(t, 1, FALSE, 0)

\* The first of two parse results unless it is a failure.
FirstOk(first, second) == IF first.ok THEN first ELSE second

\* The longest prefix of at most n characters that parses once healed.
RECURSIVE HealedPrefix(_, _)
HealedPrefix(t, n) ==
    IF n = 0 THEN [ok |-> FALSE, value |-> <<>>]
    ELSE FirstOk(JsonParse(JsonHeal(SubSeq(t, 1, n))), HealedPrefix(t, n - 1))

\* parsePartialJson: the strict parse, else the parse of the healed buffer,
\* else that of the buffer cut back to where healing succeeds; ok is FALSE
\* where it returns no value.
parsePartialJson(t) == FirstOk(JsonParse(t), HealedPrefix(t, Len(t)))

\* The indentation of JSON.stringify(value, null, 2) at a depth.
JsonIndent(depth) == [n \in 1..(2 * depth) |-> " "]

\* The printed value v from position i on as JSON.stringify(value, null, 2)
\* writes it: an empty object stays {}, a member stands on a line of its
\* own and a space follows its colon.
RECURSIVE JsonPretty(_, _, _, _)
JsonPretty(v, i, depth, inString) ==
    IF i > Len(v) THEN <<>>
    ELSE IF inString THEN <<v[i]>> \o JsonPretty(v, i + 1, depth, v[i] # "\"")
    ELSE IF v[i] = "\"" THEN <<v[i]>> \o JsonPretty(v, i + 1, depth, TRUE)
    ELSE IF v[i] = "{" /\ i < Len(v) /\ v[i + 1] = "}"
    THEN <<"{", "}">> \o JsonPretty(v, i + 2, depth, FALSE)
    ELSE IF v[i] = "{"
    THEN <<"{", "\n">> \o JsonIndent(depth + 1) \o JsonPretty(v, i + 1, depth + 1, FALSE)
    ELSE IF v[i] = "}"
    THEN <<"\n">> \o JsonIndent(depth - 1) \o <<"}">> \o JsonPretty(v, i + 1, depth - 1, FALSE)
    ELSE IF v[i] = ":" THEN <<":", " ">> \o JsonPretty(v, i + 1, depth, FALSE)
    ELSE <<v[i]>> \o JsonPretty(v, i + 1, depth, FALSE)

\* JSON.stringify(value, null, 2) of a parsed value.
JsonStringify2(v) == JsonPretty(v, 1, 0, FALSE)

\* if (parsedInput): the empty string is the falsy value of these texts.
JsonTruthy(r) == r.ok /\ r.value # <<"\"", "\"">>

\* ------------------------------------------------------- tool tracking
\* `undefined`, for a text-valued field: no text is this one-element
\* sequence, text being made of single characters.
Undefined == <<"<undefined>">>

NoTool == ""

\* The literal '{}' of a placeholder's buffer.
EmptyObjectJson == <<"{", "}">>

\* The object {} as a parsed value.
EmptyInput == <<"{", "}">>

\* The ToolUseState handleToolUseStart builds.  inputFrom is a history
\* field: for every character of inputJson, the tool id the delta that
\* brought it was addressed to.
ToolUseState(id, name, streamIndex) ==
    [id |-> id, name |-> name, streamIndex |-> streamIndex,
     inputJson |-> <<>>, inputFrom |-> <<>>, parsedInput |-> Undefined,
     result |-> Undefined, isError |-> FALSE, subagentCalls |-> <<>>]

ToolBlock(tool) == [type |-> "tool_use", tool |-> tool]

\* A SubagentToolCall; streamIndex -1 stands for undefined.
SubagentToolCall(id, name, input, streamIndex, inputJson) ==
    [id |-> id, name |-> name, input |-> input, streamIndex |-> streamIndex,
     inputJson |-> inputJson, parsedInput |-> Undefined,
     result |-> Undefined, isError |-> FALSE, isLoading |-> TRUE]

\* Map.get with a default, Map.set and Map.has on a function.
MapGet(m, k, default) == IF k \in DOMAIN m THEN m[k] ELSE default

MapSet(m, k, v) == [x \in DOMAIN m \cup {k} |-> IF x = k THEN v ELSE m[x]]

MapHas(m, k) == k \in DOMAIN m

\* Array.find as a position: the least of the positions that pass the test,
\* 0 when none does.
FirstOf(positions) ==
    IF positions = {} THEN 0 ELSE CHOOSE i \in positions : \A j \in positions : i <= j

LastOf(positions) ==
    IF positions = {} THEN 0 ELSE CHOOSE i \in positions : \A j \in positions : i >= j

IsToolBlock(block, toolId) == block.type = "tool_use" /\ block.tool.id = toolId

\* contentArray.find(...): the position of the first tool_use block with
\* that tool id, 0 when there is none.
FirstToolById(blocks, toolId) ==
    FirstOf({i \in 1..Len(blocks) : IsToolBlock(blocks[i], toolId)})

\* The same by stream index.
FirstToolByIndex(blocks, index) ==
    FirstOf({i \in 1..Len(blocks) :
                blocks[i].type = "tool_use" /\ blocks[i].tool.streamIndex = index})

HoldsTool(m, toolId) ==
    /\ m.role = "assistant"
    /\ ~m.content.isString
    /\ FirstToolById(m.content.blocks, toolId) > 0

\* The first tool_use block of that id in message i.
ToolIn(S, i, toolUseId) ==
    IF i = 0 THEN <<0, 0>> ELSE <<i, FirstToolById(S.messages[i].content.blocks, toolUseId)>>

\* Session.findToolBlockById: the newest assistant message holding a
\* tool_use block of that id, and the first such block in it; <<0, 0>>
\* stands for null.
findToolBlockById(S, toolUseId) ==
    ToolIn(S, LastOf({i \in 1..Len(S.messages) : HoldsTool(S.messages[i], toolUseId)}),
           toolUseId)

ToolAt(S, pos) == S.messages[pos[1]].content.blocks[pos[2]].tool

SetToolAt(S, pos, tool) ==
    [S EXCEPT !.messages[pos[1]].content.blocks[pos[2]].tool = tool]

\* subagentCalls.find((call) => call.id === toolId): its position, else 0.
FirstCallById(calls, toolId) == FirstOf({i \in 1..Len(calls) : calls[i].id = toolId})

\* A tool start that puts its segment in front of the others; the
\* append-only property must tell it from the real one.
handleToolUseStartInFront(S0, id, name, streamIndex) ==
    LET S == ensureContentArray(ensureAssistantMessage(S0))
    IN [S EXCEPT !.messages[Len(S.messages)].content.blocks =
                     <<ToolBlock(ToolUseState(id, name, streamIndex))>> \o @]

handleToolUseStart(S0, id, name, streamIndex) ==
    LET S == ensureContentArray(ensureAssistantMessage(S0))
    IN [S EXCEPT !.messages[Len(S.messages)].content.blocks =
                     Append(@, ToolBlock(ToolUseState(id, name, streamIndex)))]

\* A nested start that opens a top-level segment when its parent is
\* unknown; the nesting property must tell it from the real one.
handleSubagentToolUseStartOrTop(S, parentToolUseId, id, name, input, streamIndex) ==
    IF findToolBlockById(S, parentToolUseId) = <<0, 0>>
    THEN handleToolUseStart(S, id, name, streamIndex)
    ELSE [S EXCEPT !.childToolToParent = MapSet(@, id, parentToolUseId)]

\* A nested start that records a new call without looking for one of its
\* id; the backfill property must tell it from the real one.
handleSubagentToolUseStartEager(S, parentToolUseId, id, name, input, streamIndex) ==
    LET S1 == [S EXCEPT !.childToolToParent = MapSet(@, id, parentToolUseId)]
        pos == findToolBlockById(S1, parentToolUseId)
    IN IF pos = <<0, 0>> THEN S1
       ELSE LET parent == ToolAt(S1, pos)
                k == FirstCallById(parent.subagentCalls, id)
            IN IF k > 0
               THEN SetToolAt(S1, pos,
                        [parent EXCEPT !.subagentCalls[k].name = name,
                                       !.subagentCalls[k].input = input,
                                       !.subagentCalls[k].streamIndex = streamIndex])
               ELSE SetToolAt(S1, pos,
                        [parent EXCEPT !.subagentCalls =
                             Append(@, SubagentToolCall(id, name, input, streamIndex,
                                                        JsonStringify2(input)))])

handleSubagentToolUseStartPush(S, parentToolUseId, id, name, input, streamIndex) ==
    LET pos == findToolBlockById(S, parentToolUseId) IN
    IF pos = <<0, 0>> THEN S
    ELSE SetToolAt([S EXCEPT !.childToolToParent = MapSet(@, id, parentToolUseId)], pos,
             [ToolAt(S, pos) EXCEPT !.subagentCalls =
                  Append(@, SubagentToolCall(id, name, input, streamIndex,
                                             JsonStringify2(input)))])

handleSubagentToolUseStart(S, parentToolUseId, id, name, input, streamIndex) ==
    LET pos == findToolBlockById(S, parentToolUseId) IN
    IF pos = <<0, 0>> THEN S
    ELSE LET S1 == [S EXCEPT !.childToolToParent = MapSet(@, id, parentToolUseId)]
             parent == ToolAt(S1, pos)
             k == FirstCallById(parent.subagentCalls, id)
         IN IF k > 0
            THEN SetToolAt(S1, pos,
                     [parent EXCEPT !.subagentCalls[k].name = name,
                                    !.subagentCalls[k].input = input,
                                    !.subagentCalls[k].streamIndex = streamIndex])
            ELSE SetToolAt(S1, pos,
                     [parent EXCEPT !.subagentCalls =
                          Append(@, SubagentToolCall(id, name, input, streamIndex,
                                                     JsonStringify2(input)))])

PlaceholderName == <<"T", "o", "o", "l">>

ensureSubagentToolPlaceholder(S, parentToolUseId, toolUseId) ==
    LET pos == findToolBlockById(S, parentToolUseId) IN
    IF pos = <<0, 0>> THEN S
    ELSE LET parent == ToolAt(S, pos) IN
         IF FirstCallById(parent.subagentCalls, toolUseId) > 0 THEN S
         ELSE SetToolAt([S EXCEPT !.childToolToParent = MapSet(@, toolUseId, parentToolUseId)],
                        pos,
                        [parent EXCEPT !.subagentCalls =
                             Append(@, SubagentToolCall(toolUseId, PlaceholderName, EmptyInput,
                                                        -1, EmptyObjectJson))])

\* An argument delta that goes to the first tool opened at its stream
\* index, whatever its id; the buffer property must tell it from the real one.
handleToolInputDeltaByIndex(S0, index, toolId, delta, from) ==
    LET S == ensureContentArray(ensureAssistantMessage(S0))
        n == Len(S.messages)
        k == FirstToolByIndex(S.messages[n].content.blocks, index)
    IN IF k = 0 THEN S
       ELSE [S EXCEPT !.messages[n].content.blocks[k].tool.inputJson = @ \o delta,
                      !.messages[n].content.blocks[k].tool.inputFrom =
                          @ \o [c \in 1..Len(delta) |-> from]]

\* handleToolInputDelta.  `from` is the tool id the runtime meant the delta
\* for; it feeds the history field inputFrom alone.
handleToolInputDelta(S0, index, toolId, delta, from) ==
    LET S == ensureContentArray(ensureAssistantMessage(S0))
        n == Len(S.messages)
        k == FirstToolById(S.messages[n].content.blocks, toolId)
    IN IF k = 0 THEN S
       ELSE LET tool == S.messages[n].content.blocks[k].tool
                newInputJson == tool.inputJson \o delta
                parsedInput == parsePartialJson(newInputJson)
            IN [S EXCEPT !.messages[n].content.blocks[k].tool =
                   [tool EXCEPT !.inputJson = newInputJson,
                                !.inputFrom = @ \o [c \in 1..Len(delta) |-> from],
                                !.parsedInput = IF JsonTruthy(parsedInput)
                                                THEN parsedInput.value ELSE @]]

handleSubagentToolInputDelta(S, parentToolUseId, toolId, delta) ==
    LET pos == findToolBlockById(S, parentToolUseId) IN
    IF pos = <<0, 0>> THEN S
    ELSE LET parent == ToolAt(S, pos)
             k == FirstCallById(parent.subagentCalls, toolId)
         IN IF k = 0 THEN S
            ELSE LET newInputJson == parent.subagentCalls[k].inputJson \o delta
                     parsedInput == parsePartialJson(newInputJson)
                 IN SetToolAt(S, pos,
                        [parent EXCEPT !.subagentCalls[k].inputJson = newInputJson,
                                       !.subagentCalls[k].parsedInput =
                                           IF JsonTruthy(parsedInput)
                                           THEN parsedInput.value ELSE @])

FinalOfStrictOnly(strict, parsed, kept) ==
    IF strict.ok THEN strict.value ELSE Undefined

FinalOf(strict, parsed, kept) ==
    IF strict.ok THEN strict.value ELSE IF JsonTruthy(parsed) THEN parsed.value ELSE kept

\* JSON.parse of the buffer, and parsePartialJson where it throws; the
\* value to store, or the one kept.
FinalParse(inputJson, kept) ==
    FinalOf(JsonParse(inputJson), parsePartialJson(inputJson), kept)

finalizeSubagentToolInput(S, parentToolUseId, toolId) ==
    LET pos == findToolBlockById(S, parentToolUseId) IN
    IF pos = <<0, 0>> THEN S
    ELSE LET parent == ToolAt(S, pos)
             k == FirstCallById(parent.subagentCalls, toolId)
         IN IF k = 0 \/ parent.subagentCalls[k].inputJson = <<>> THEN S
            ELSE SetToolAt(S, pos,
                     [parent EXCEPT !.subagentCalls[k].parsedInput =
                          FinalParse(parent.subagentCalls[k].inputJson, @)])

\* An optional boolean argument is a sequence: <<>> for undefined, <<b>>
\* for the boolean b.  The flag as it is after such an argument.
FlagAfter(flag, isError) == IF isError = <<>> THEN flag ELSE isError[1]

setToolResult(S, toolUseId, content, isError) ==
    LET pos == findToolBlockById(S, toolUseId) IN
    IF pos = <<0, 0>> THEN S
    ELSE SetToolAt(S, pos, [ToolAt(S, pos) EXCEPT !.result = content,
                                                  !.isError = FlagAfter(@, isError)])

\* The lookup the subagent result handlers share: the parent the child is
\* mapped to, that parent's block and the child's call in it, as
\* <<message, block, call>>; <<0, 0, 0>> where any of them is missing.
SubagentCallOf(S, toolUseId) ==
    LET parentToolUseId == MapGet(S.childToolToParent, toolUseId, NoTool)
        pos == IF parentToolUseId = NoTool THEN <<0, 0>>
               ELSE findToolBlockById(S, parentToolUseId)
        k == IF pos = <<0, 0>> THEN 0
             ELSE FirstCallById(ToolAt(S, pos).subagentCalls, toolUseId)
    IN IF k = 0 THEN <<0, 0, 0>> ELSE <<pos[1], pos[2], k>>

\* handleToolResultStart: handleSubagentToolResultStart, and setToolResult
\* where that returns false.
handleToolResultStart(S, toolUseId, content, isError) ==
    LET at == SubagentCallOf(S, toolUseId) IN
    IF at = <<0, 0, 0>> THEN setToolResult(S, toolUseId, content, <<isError>>)
    ELSE [S EXCEPT !.messages[at[1]].content.blocks[at[2]].tool.subagentCalls[at[3]] =
             [@ EXCEPT !.result = content, !.isError = isError, !.isLoading = TRUE]]

\* `result ?? ''`
TextOr(t) == IF t = Undefined THEN <<>> ELSE t

\* appendToolResultDelta: appendSubagentToolResultDelta, and the top-level
\* ToolRecord where that returns false.
appendToolResultDelta(S, toolUseId, delta) ==
    LET at == SubagentCallOf(S, toolUseId)
        pos == findToolBlockById(S, toolUseId)
    IN IF at # <<0, 0, 0>>
       THEN [S EXCEPT !.messages[at[1]].content.blocks[at[2]].tool.subagentCalls[at[3]] =
                [@ EXCEPT !.result = TextOr(@) \o delta, !.isLoading = TRUE]]
       ELSE IF pos = <<0, 0>> THEN S
       ELSE SetToolAt(S, pos, [ToolAt(S, pos) EXCEPT !.result = TextOr(@) \o delta])

\* A completion that appends its content to the result it finds; the
\* result property must tell it from the real one.
handleToolResultCompleteAppend(S, toolUseId, content, isError) ==
    appendToolResultDelta(S, toolUseId, content)

\* handleToolResultComplete: handleSubagentToolResultComplete, and
\* setToolResult where that returns false.
handleToolResultComplete(S, toolUseId, content, isError) ==
    LET at == SubagentCallOf(S, toolUseId) IN
    IF at = <<0, 0, 0>> THEN setToolResult(S, toolUseId, content, isError)
    ELSE [S EXCEPT !.messages[at[1]].content.blocks[at[2]].tool.subagentCalls[at[3]] =
             [@ EXCEPT !.result = content, !.isError = FlagAfter(@, isError),
                       !.isLoading = FALSE]]

finalizeSubagentToolResult(S, toolUseId) ==
    LET at == SubagentCallOf(S, toolUseId) IN
    IF at = <<0, 0, 0>> THEN S
    ELSE [S EXCEPT !.messages[at[1]].content.blocks[at[2]].tool.subagentCalls[at[3]].isLoading =
             FALSE]


\* handleContentBlockStop; toolId NoTool stands for undefined.
handleContentBlockStop(S0, index, toolId) ==
    LET S == ensureContentArray(ensureAssistantMessage(S0))
        n == Len(S.messages)
        blocks == S.messages[n].content.blocks
        k == FirstOpenThinking(blocks, index)
        t == IF toolId # NoTool THEN FirstToolById(blocks, toolId)
             ELSE FirstToolByIndex(blocks, index)
    IN IF k > 0
       THEN [S EXCEPT !.messages[n].content.blocks[k].isComplete = TRUE]
       ELSE IF t > 0 /\ blocks[t].tool.inputJson # <<>>
       THEN [S EXCEPT !.messages[n].content.blocks[t].tool.parsedInput =
                FinalParse(blocks[t].tool.inputJson, @)]
       ELSE S


\* ------------------------------------------------------- the driving loop
\* A start that is never refused; the one-loop property must tell it from
\* the guarded one.
StartGuardNever(S) == FALSE

\* The guard of startStreamingSession after the await.
StartGuard(S) == S.isProcessing \/ S.querySession

\* startStreamingSession from the guard to the first await of the loop.
\* query() is taken not to throw synchronously: a runtime failure arrives
\* through the event stream.
StartLoop(S) ==
    LET S1 == [S EXCEPT !.shouldAbortSession = FALSE,
                        !.isProcessing = TRUE,
                        !.streamIndexToToolId = <<>>]
        S2 == setSessionState(S1, "running")
    IN [S2 EXCEPT !.sessionTerminationPromise = "pending", !.querySession = TRUE]

StartLoopProc(P) ==
    [P EXCEPT !.activeLoops = @ + 1, !.gen = "unpulled", !.held = -1,
              !.handed = 0, !.results = 0, !.started = <<>>, !.sentTo = <<>>]

\* A call of startStreamingSession: it suspends on an existing termination
\* promise, otherwise it runs up to the loop at once.
startStreamingSession(S) ==
    IF S.sessionTerminationPromise # "null" \/ StartGuard(S) THEN S ELSE StartLoop(S)

startStreamingSessionProc(S, P) ==
    IF S.sessionTerminationPromise = "resolved" THEN [P EXCEPT !.startsSettled = @ + 1]
    ELSE IF S.sessionTerminationPromise = "pending" THEN [P EXCEPT !.startsUnsettled = @ + 1]
    ELSE IF StartGuard(S) THEN P
    ELSE StartLoopProc(P)

\* The finally block of startStreamingSession.
LoopFinally(S) ==
    LET S1 == [S EXCEPT !.isProcessing = FALSE, !.querySession = FALSE]
        S2 == IF S1.sessionState # "error" THEN setSessionState(S1, "idle") ELSE S1
    IN [S2 EXCEPT !.sessionTerminationPromise = "resolved"]

\* A finally block that asks for a new loop by itself; the no-retry
\* property must tell it from the real one.
LoopFinallyRetryProc(P) ==
    [P EXCEPT !.activeLoops = @ - 1,
              !.gen = "none",
              !.held = -1,
              !.zombies = @ + (IF P.gen = "polling" THEN 1 ELSE 0),
              !.zombieHeld = @ \cup (IF P.gen = "yielded" THEN {P.held} ELSE {}),
              !.startsSettled = @ + P.startsUnsettled + 1,
              !.startsUnsettled = 0,
              !.handed = 0,
              !.results = 0]

\* The loop is gone: its generator stays behind if it is inside the polling
\* promise (it polls the queue on its own timer) or has yielded an item it
\* has not resolved; start requests waiting for this termination may go on.
LoopFinallyProc(P) ==
    [P EXCEPT !.activeLoops = @ - 1,
              !.gen = "none",
              !.held = -1,
              !.zombies = @ + (IF P.gen = "polling" THEN 1 ELSE 0),
              !.zombieHeld = @ \cup (IF P.gen = "yielded" THEN {P.held} ELSE {}),
              !.startsSettled = @ + P.startsUnsettled,
              !.startsUnsettled = 0,
              !.handed = 0,
              !.results = 0]

\* A catch block that records the failure in the state alone, without the
\* error turn; the error-path property must tell it from the real one.
LoopCatchNoTurn(S, errorMessage) ==
    setSessionState(Emit(S, "chat:message-error", "", 0), "error")

\* The catch block of startStreamingSession.
LoopCatch(S, errorMessage) ==
    setSessionState(handleMessageError(Emit(S, "chat:message-error", "", 0), errorMessage),
                    "error")

Event(type, index, text) ==
    [type |-> type, index |-> index, text |-> text, id |-> NoTool, parent |-> NoTool]

\* An event about a tool: id is the tool id it carries (for an argument
\* delta, which carries none, the tool the runtime means it for), parent
\* the parent_tool_use_id of its message, NoTool for null.
ToolEvent(type, index, id, parent, text) ==
    [type |-> type, index |-> index, text |-> text, id |-> id, parent |-> parent]

\* An event that carries a tool result: isError is the optional is_error
\* of its block.
ToolResultEvent(type, index, id, parent, text, isError) ==
    [type |-> type, index |-> index, text |-> text, id |-> id, parent |-> parent,
     isError |-> isError]

\* A tool start that carries an input; ToolEvent makes the start whose
\* input is missing, as a stream start's is.
ToolStartEvent(index, id, parent, name, input) ==
    [type |-> "tool_use_start", index |-> index, text |-> name, id |-> id,
     parent |-> parent, input |-> input]

\* `content_block.input || {}`
InputOf(ev) == IF "input" \in DOMAIN ev THEN ev.input ELSE EmptyInput

\* `is_error || false`
IsErrorOf(ev) == "isError" \in DOMAIN ev /\ ev.isError = <<TRUE>>

MapDelete(m, k) == [x \in DOMAIN m \ {k} |-> m[x]]

\* content_block_start of a tool_use block; ev.text is the tool's name.
ReconcileToolUse(S, ev) ==
    LET S1 == [S EXCEPT !.streamIndexToToolId = MapSet(@, ev.index, ev.id)]
    IN IF ev.parent # NoTool
       THEN handleSubagentToolUseStart(Emit(S1, "chat:subagent-tool-use", ev.id, ev.index),
                                       ev.parent, ev.id, ev.text, InputOf(ev), ev.index)
       ELSE handleToolUseStart(Emit(S1, "chat:tool-use-start", ev.id, ev.index),
                               ev.id, ev.text, ev.index)

\* A tool result start that applies the result before it looks for the
\* parent; the placeholder property must tell it from the real one.
ReconcileToolResultFirst(S, ev) ==
    IF ev.text = <<>> THEN S
    ELSE ensureSubagentToolPlaceholder(
             handleToolResultStart(S, ev.id, ev.text, FALSE),
             MapGet(S.childToolToParent, ev.id, ev.parent), ev.id)

\* content_block_start of a tool result block; ev.text is contentStr.
ReconcileToolResult(S, ev) ==
    LET S1 == [S EXCEPT !.toolResultIndexToId = MapSet(@, ev.index, ev.id)]
        parentToolUseId == MapGet(S1.childToolToParent, ev.id, ev.parent)
        S2 == IF parentToolUseId # NoTool /\ ~MapHas(S1.childToolToParent, ev.id)
              THEN ensureSubagentToolPlaceholder(S1, parentToolUseId, ev.id)
              ELSE S1
        S3 == Emit(S2, IF parentToolUseId # NoTool THEN "chat:subagent-tool-result-start"
                       ELSE "chat:tool-result-start", ev.id, ev.index)
    IN IF ev.text = <<>> THEN S1
       ELSE handleToolResultStart(S3, ev.id, ev.text, IsErrorOf(ev))

\* content_block_delta of type text_delta in a message with a parent tool
\* id: the text is a piece of that tool's result.
ReconcileResultDelta(S, ev) ==
    appendToolResultDelta(
        Emit(S, IF MapHas(S.childToolToParent, ev.parent)
                THEN "chat:subagent-tool-result-delta" ELSE "chat:tool-result-delta",
             ev.parent, 0),
        ev.parent, ev.text)

\* The placeholder a completed result asks for when its tool is mapped to
\* no parent.
PlaceholderFor(S, ev) ==
    IF MapGet(S.childToolToParent, ev.id, ev.parent) # NoTool
       /\ ~MapHas(S.childToolToParent, ev.id)
    THEN ensureSubagentToolPlaceholder(S, MapGet(S.childToolToParent, ev.id, ev.parent), ev.id)
    ELSE S

ResultCompleteType(S, ev) ==
    IF MapGet(S.childToolToParent, ev.id, ev.parent) # NoTool
    THEN "chat:subagent-tool-result-complete" ELSE "chat:tool-result-complete"

\* A user message with a parent tool id whose content is one tool_result
\* block with string content ev.text.
ReconcileUserResult(S, ev) ==
    IF ev.parent = NoTool THEN S
    ELSE handleToolResultComplete(
             Emit(PlaceholderFor(S, ev), ResultCompleteType(S, ev), ev.id, 0),
             ev.id, ev.text, <<>>)

\* An assistant message whose content is one tool result block with
\* string content ev.text: it holds no tool_use block and no text.
ReconcileAssistantResult(S, ev) ==
    handleToolResultComplete(
        Emit(PlaceholderFor(S, ev), ResultCompleteType(S, ev), ev.id, 0),
        ev.id, ev.text, <<IsErrorOf(ev)>>)

ResultStopped(S, toolResultId) ==
    IF SubagentCallOf(S, toolResultId) = <<0, 0, 0>> THEN S
    ELSE Emit(finalizeSubagentToolResult(S, toolResultId),
              "chat:subagent-tool-result-complete", toolResultId, 0)

\* The tool result half of a nested content_block_stop.
SubagentResultStop(S, index) ==
    IF ~MapHas(S.toolResultIndexToId, index) THEN S
    ELSE ResultStopped([S EXCEPT !.toolResultIndexToId = MapDelete(@, index)],
                       S.toolResultIndexToId[index])

\* content_block_stop.
ReconcileStop(S, ev) ==
    IF ev.parent # NoTool
    THEN SubagentResultStop(
             IF MapHas(S.streamIndexToToolId, ev.index)
             THEN finalizeSubagentToolInput(S, ev.parent, S.streamIndexToToolId[ev.index])
             ELSE S,
             ev.index)
    ELSE handleContentBlockStop(
             Emit(S, "chat:content-block-stop",
                  MapGet(S.streamIndexToToolId, ev.index, NoTool), ev.index),
             ev.index, MapGet(S.streamIndexToToolId, ev.index, NoTool))

\* content_block_delta of type input_json_delta.
ReconcileInputDelta(S, ev) ==
    LET toolId == MapGet(S.streamIndexToToolId, ev.index, NoTool) IN
    IF ev.parent # NoTool
    THEN handleSubagentToolInputDelta(Emit(S, "chat:subagent-tool-input-delta", toolId, 0),
                                      ev.parent, toolId, ev.text)
    ELSE handleToolInputDelta(Emit(S, "chat:tool-input-delta", toolId, ev.index),
                              ev.index, toolId, ev.text, ev.id)

\* One runtime event, as the body of the for-await loop classifies it.
Reconcile(S, ev) ==
    CASE ev.type = "text_delta" ->
             IF ev.parent # NoTool THEN ReconcileResultDelta(S, ev)
             ELSE appendTextChunk(Emit(S, "chat:message-chunk", "", 0), ev.text)
      [] ev.type = "thinking_delta" ->
             handleThinkingChunk(Emit(S, "chat:thinking-chunk", "", ev.index), ev.index, ev.text)
      [] ev.type = "input_json_delta" -> ReconcileInputDelta(S, ev)
      [] ev.type = "thinking_start" ->
             handleThinkingStart(Emit(S, "chat:thinking-start", "", ev.index), ev.index)
      [] ev.type = "tool_use_start" -> ReconcileToolUse(S, ev)
      [] ev.type = "tool_result_start" -> ReconcileToolResult(S, ev)
      [] ev.type = "content_block_stop" -> ReconcileStop(S, ev)
      [] ev.type = "user" -> ReconcileUserResult(S, ev)
      [] ev.type = "assistant" -> ReconcileAssistantResult(S, ev)
      [] ev.type = "result" ->
             handleMessageComplete(Emit(S, "chat:message-complete", "", 0))
      [] OTHER -> S

ErrorText == <<"x">>

ContentEvents ==
    {Event("text_delta", 0, <<"t">>),
     Event("thinking_start", 0, <<>>),
     Event("thinking_delta", 0, <<"h">>),
     Event("content_block_stop", 0, <<>>)}

ResultEvent == Event("result", 0, <<>>)

\* -------------------------------------------------------------- the client
\* The hook useClaudeChat of one renderer: its message list, the ids it has
\* seen replayed and its streaming flag. Of a message it keeps here the
\* id, the role and, per segment, the kind and the tool id; the texts, the
\* arguments and the results inside the segments are left out, and so are
\* the handlers that change nothing else. A renderer need not be attached;
\* replays counts the notifications delivered to it a second time.
LocalId == 0 - 1

Detached ==
    [attached |-> FALSE, messages |-> <<>>, seenIds |-> {}, isStreaming |-> FALSE,
     replays |-> 0]

NewClient == [Detached EXCEPT !.attached = TRUE]

ClientBlock(type, toolId) == [type |-> type, toolId |-> toolId]

ClientMessage(id, role, isString, blocks) ==
    [id |-> id, role |-> role, isString |-> isString, blocks |-> blocks]

\* chatClient.onInit
onInit(c) == [c EXCEPT !.seenIds = {}, !.messages = <<>>]

onMessageReplayAlways(c, id) ==
    [c EXCEPT !.seenIds = @ \cup {id},
              !.messages = Append(@, ClientMessage(id, "user", TRUE, <<>>))]

\* chatClient.onMessageReplay, of the user message with that id.
onMessageReplay(c, id) ==
    IF id \in c.seenIds THEN c
    ELSE [c EXCEPT !.seenIds = @ \cup {id},
                   !.messages = Append(@, ClientMessage(id, "user", TRUE, <<>>))]

\* typeof content === 'string' ? [{ type: 'text', text: content }] : content
ClientContentArray(m) == IF m.isString THEN <<ClientBlock("text", NoTool)>> ELSE m.blocks

\* A handler that adds a segment to the last assistant message, or starts
\* an assistant message with it.
ClientAppendBlock(c, block) ==
    LET n == Len(c.messages) IN
    IF n > 0 /\ c.messages[n].role = "assistant"
    THEN [c EXCEPT !.messages[n] =
             ClientMessage(@.id, @.role, FALSE, Append(ClientContentArray(@), block))]
    ELSE [c EXCEPT !.isStreaming = TRUE,
                   !.messages = Append(@, ClientMessage(LocalId, "assistant", FALSE, <<block>>))]

\* chatClient.onMessageChunk
onMessageChunk(c) ==
    LET n == Len(c.messages) IN
    IF n > 0 /\ c.messages[n].role = "assistant" /\ c.isStreaming
    THEN IF c.messages[n].isString THEN c
         ELSE LET blocks == c.messages[n].blocks IN
              IF blocks # <<>> /\ blocks[Len(blocks)].type = "text" THEN c
              ELSE [c EXCEPT !.messages[n].blocks = Append(@, ClientBlock("text", NoTool))]
    ELSE [c EXCEPT !.isStreaming = TRUE,
                   !.messages = Append(@, ClientMessage(LocalId, "assistant", TRUE, <<>>))]

\* chatClient.onThinkingStart
onThinkingStart(c) == ClientAppendBlock(c, ClientBlock("thinking", NoTool))

\* chatClient.onToolUseStart
onToolUseStart(c, toolId) == ClientAppendBlock(c, ClientBlock("tool_use", toolId))

\* chatClient.onMessageComplete and onMessageStopped, with no debug output
\* accumulated.
onMessageComplete(c) == [c EXCEPT !.isStreaming = FALSE]

\* chatClient.onMessageError
onMessageError(c) ==
    [c EXCEPT !.isStreaming = FALSE,
              !.messages = Append(@, ClientMessage(LocalId, "assistant", TRUE, <<>>))]

\* One notification reaches the hook.
Deliver(c, b) ==
    CASE b.type = "chat:message-replay" -> onMessageReplay(c, b.n)
      [] b.type = "chat:message-chunk" -> onMessageChunk(c)
      [] b.type = "chat:thinking-start" -> onThinkingStart(c)
      [] b.type = "chat:tool-use-start" -> onToolUseStart(c, b.arg)
      [] b.type \in {"chat:message-complete", "chat:message-stopped"} -> onMessageComplete(c)
      [] b.type = "chat:message-error" -> onMessageError(c)
      [] OTHER -> c

\* The broadcasts of one step reach an attached renderer in their order.
RECURSIVE Delivered(_, _)
Delivered(c, o) ==
    IF ~c.attached \/ o = <<>> THEN c ELSE Delivered(Deliver(c, Head(o)), Tail(o))

\* ------------------------------------------------------------ the registry
Init ==
    /\ sessions = <<>>
    /\ activeSessionId = NoSession
    /\ created = 0
    /\ session = [s \in SessionIds |-> NewSession(s)]
    /\ proc = [s \in SessionIds |-> NewProc]
    /\ out = <<>>
    /\ client = Detached

\* SessionManager.createSession; randomUUID() gives the next unused id.
CreateSession ==
    /\ created < MaxSessions
    /\ LET id == created + 1 IN
       /\ sessions' = Append(sessions, id)
       /\ activeSessionId' = IF activeSessionId = NoSession THEN id ELSE activeSessionId
       /\ created' = id
       /\ session' = [session EXCEPT ![id] = NewSession(id)]
       /\ out' = <<Bc("session:created", id, "", 0)>>
       /\ client' = Delivered(client, out')
    /\ UNCHANGED proc

\* A switch that succeeds for any id; the notification property must tell
\* it from the real one.
switchSessionResultAlways(id) == TRUE

\* What setActiveSession(id) returns.
switchSessionResult(id) == Known(id)

\* SessionManager.setActiveSession
SwitchSession(id) ==
    /\ IF switchSessionResult(id)
       THEN /\ activeSessionId' = id
            /\ out' = <<Bc("session:switched", id, "", 0)>>
            /\ client' = Delivered(client, out')
       ELSE UNCHANGED <<activeSessionId, out, client>>
    /\ UNCHANGED <<sessions, created, session, proc>>

\* A registry that refuses no deletion; the deletion contract must tell it
\* from the real one.
DeleteRefusedNever(S) == FALSE

\* "Cannot delete running session"
DeleteRefused(S) == S.sessionState = "running"

Without(q, id) == SelectSeq(q, LAMBDA x : x # id)

\* A registry that clears the active pointer whenever the active session is
\* deleted; the pointer invariant must tell it from the real one.
NextActiveNone(remaining) == NoSession

\* The active pointer after the active session was deleted: the first of
\* the remaining sessions in Map order, else null.
NextActive(remaining) == IF remaining # <<>> THEN remaining[1] ELSE NoSession

\* What deleteSession(id) returns.
deleteSessionResult(id) == Known(id) /\ ~DeleteRefused(session[id])

\* SessionManager.deleteSession
DeleteSession(id) ==
    /\ IF ~deleteSessionResult(id)
       THEN UNCHANGED <<sessions, activeSessionId, out, client>>
       ELSE LET remaining == Without(sessions, id)
                repoint == activeSessionId = id /\ remaining # <<>>
            IN /\ sessions' = remaining
               /\ activeSessionId' =
                      IF activeSessionId # id THEN activeSessionId
                      ELSE NextActive(remaining)
               /\ out' = <<Bc("session:deleted", id, "", 0)>>
                             \o (IF repoint
                                 THEN <<Bc("session:switched", remaining[1], "", 0)>>
                                 ELSE <<>>)
               /\ client' = Delivered(client, out')
    /\ UNCHANGED <<created, session, proc>>


\* --------------------------------------------------- enqueueUserMessage
Texts == {<<" ">>, <<"h", "i", " ">>}

HasActiveSession == activeSessionId # NoSession /\ Known(activeSessionId)

\* A lookup that takes the active session whatever id is named; the frame
\* property of concurrent sessions must tell it from the real one.
EnqueueTargetActive(sessionId) ==
    IF HasActiveSession THEN activeSessionId ELSE created + 1

\* The session enqueueUserMessage works on: the one named, else the active
\* one, else a new one (getOrCreateActiveSession).
EnqueueTarget(sessionId) ==
    IF sessionId # NoSession THEN sessionId
    ELSE IF HasActiveSession THEN activeSessionId
    ELSE created + 1

QueueItem(turn, text) == [turn |-> turn, text |-> text]

\* enqueueUserMessage up to the call of startStreamingSession.
EnqueueAppend(S0, trimmed) ==
    LET S1 == setSessionState(S0, "running")
        userMessage == MessageWire(S1.messageSequence, "user", StringContent(trimmed))
        S2 == [S1 EXCEPT !.messageSequence = @ + 1, !.messages = Append(@, userMessage)]
        S3 == updateNameFromFirstMessage(Emit(S2, "chat:message-replay", "", userMessage.id))
    IN IF Len(S3.messages) = 1 THEN Emit(S3, "session:updated", "", 0) ELSE S3

\* The rest of it: start a driving loop if none is live, then queue the turn.
EnqueueStart(S, turn, trimmed) ==
    LET S1 == IF ~isSessionActive(S) THEN startStreamingSession(S) ELSE S
    IN [S1 EXCEPT !.messageQueue = Append(@, QueueItem(turn, trimmed))]

\* An enqueue whose completion promise resolves as soon as the item is
\* pushed; the hand-off property must tell it from the real one.
EnqueueResolvingProc(S, P) ==
    LET P1 == IF ~isSessionActive(S) THEN startStreamingSessionProc(S, P) ELSE P
    IN [P1 EXCEPT !.turns = @ + 1, !.resolved = @ \cup {S.messageSequence - 1}]

EnqueueStartProc(S, P) ==
    LET P1 == IF ~isSessionActive(S) THEN startStreamingSessionProc(S, P) ELSE P
    IN [P1 EXCEPT !.turns = @ + 1]

\* An enqueueUserMessage that does not look the session id up; the misuse
\* property must tell it from the real one.
enqueueResultUnchecked(text, sessionId) ==
    IF Trim(text) = <<>> THEN "void" ELSE "accepted"

\* How a call of enqueueUserMessage goes: it returns at once on blank text,
\* throws on an unknown session id, and otherwise accepts the turn and waits
\* for its completion promise.
enqueueResult(text, sessionId) ==
    IF Trim(text) = <<>> THEN "void"
    ELSE IF sessionId # NoSession /\ ~Known(sessionId) THEN "throw"
    ELSE "accepted"

EnqueueUserMessage(text, sessionId) ==
    LET trimmed == Trim(text)
        id == EnqueueTarget(sessionId)
        creates == sessionId = NoSession /\ ~HasActiveSession
    IN IF enqueueResult(text, sessionId) # "accepted"
       THEN UNCHANGED vars
       ELSE /\ creates => created < MaxSessions
            /\ LET S0 == IF creates
                         THEN [NewSession(id) EXCEPT
                                   !.out = <<Bc("session:created", id, "", 0)>>]
                         ELSE session[id]
                   S1 == EnqueueAppend(S0, trimmed)
                   S2 == EnqueueStart(S1, S0.messageSequence, trimmed)
               IN /\ session' = [session EXCEPT ![id] = Stored(S2)]
                  /\ proc' = [proc EXCEPT ![id] = EnqueueStartProc(S1, @)]
                  /\ out' = S2.out
                  /\ client' = Delivered(client, out')
            /\ sessions' = IF creates THEN Append(sessions, id) ELSE sessions
            /\ created' = IF creates THEN id ELSE created
            /\ activeSessionId' =
                   IF creates /\ activeSessionId = NoSession THEN id ELSE activeSessionId

\* A start request resumes after `await session.sessionTerminationPromise`.
StartResume(s) ==
    /\ proc[s].startsSettled > 0
    /\ LET S == session[s]
           P == [proc[s] EXCEPT !.startsSettled = @ - 1]
           S1 == IF StartGuard(S) THEN S ELSE StartLoop(S)
       IN /\ session' = [session EXCEPT ![s] = Stored(S1)]
          /\ proc' = [proc EXCEPT ![s] = IF StartGuard(S) THEN P ELSE StartLoopProc(P)]
          /\ out' = S1.out
          /\ client' = Delivered(client, out')
    /\ UNCHANGED <<sessions, activeSessionId, created>>

\* A start request whose awaited termination has settled resumes in the
\* microtask that follows; nothing the event loop delivers later (a runtime
\* event, a timer, the return of interrupt()) reaches the session before it.
ResumePending(s) == proc[s].startsSettled > 0

\* ------------------------------------------------------ messageGenerator
\* item.resolve(), the statement after the yield.
ResolveItem(P) == [P EXCEPT !.resolved = @ \cup {P.held}, !.held = -1]

\* The top of the generator's loop.
GenLoopTop(S) == IF S.shouldAbortSession THEN "done" ELSE "polling"

\* The runtime asks the generator for its next input: a generator that has
\* yielded goes on to resolve the item, then waits for the queue.
RuntimePull(s) ==
    /\ ~ResumePending(s)
    /\ proc[s].activeLoops > 0
    /\ proc[s].gen \in {"unpulled", "yielded"}
    /\ LET P == IF proc[s].gen = "yielded" THEN ResolveItem(proc[s]) ELSE proc[s]
       IN proc' = [proc EXCEPT ![s] = [P EXCEPT !.gen = GenLoopTop(session[s])]]
    /\ out' = <<>>
    /\ client' = Delivered(client, out')
    /\ UNCHANGED <<sessions, activeSessionId, created, session>>

\* session.messageQueue.pop() in place of shift(): the newest item first.
QueuePop(q) == [item |-> q[Len(q)], rest |-> SubSeq(q, 1, Len(q) - 1)]

\* session.messageQueue.shift()
QueueShift(q) == [item |-> Head(q), rest |-> Tail(q)]

\* checkQueue finds the abort flag set or the queue non-empty; the generator
\* returns, or shifts the first item and yields it.
GenDequeue(s) ==
    /\ ~ResumePending(s)
    /\ proc[s].activeLoops > 0
    /\ proc[s].gen = "polling"
    /\ session[s].shouldAbortSession \/ session[s].messageQueue # <<>>
    /\ IF session[s].shouldAbortSession
       THEN /\ proc' = [proc EXCEPT ![s].gen = "done"]
            /\ UNCHANGED session
       ELSE LET got == QueueShift(session[s].messageQueue) IN
            /\ session' = [session EXCEPT ![s].messageQueue = got.rest]
            /\ proc' = [proc EXCEPT ![s].gen = "yielded",
                                    ![s].held = got.item.turn,
                                    ![s].yielded = Append(@, got.item.turn),
                                    ![s].handed = @ + 1]
    /\ out' = <<>>
    /\ client' = Delivered(client, out')
    /\ UNCHANGED <<sessions, activeSessionId, created>>

\* The same step of a generator whose loop has ended: the item goes to a
\* runtime that is no longer read.
ZombieDequeue(s) ==
    /\ ~ResumePending(s)
    /\ proc[s].zombies > 0
    /\ session[s].shouldAbortSession \/ session[s].messageQueue # <<>>
    /\ IF session[s].shouldAbortSession
       THEN /\ proc' = [proc EXCEPT ![s].zombies = @ - 1]
            /\ UNCHANGED session
       ELSE LET got == QueueShift(session[s].messageQueue) IN
            /\ session' = [session EXCEPT ![s].messageQueue = got.rest]
            /\ proc' = [proc EXCEPT ![s].zombies = @ - 1,
                                    ![s].zombieHeld = @ \cup {got.item.turn},
                                    ![s].yielded = Append(@, got.item.turn)]
    /\ out' = <<>>
    /\ client' = Delivered(client, out')
    /\ UNCHANGED <<sessions, activeSessionId, created>>

\* An ended runtime may still ask such a generator for its next input.
ZombiePull(s) ==
    /\ ~ResumePending(s)
    /\ \E t \in proc[s].zombieHeld :
           proc' = [proc EXCEPT ![s].zombieHeld = @ \ {t},
                                ![s].resolved = @ \cup {t},
                                ![s].zombies = @ + (IF session[s].shouldAbortSession THEN 0 ELSE 1)]
    /\ out' = <<>>
    /\ client' = Delivered(client, out')
    /\ UNCHANGED <<sessions, activeSessionId, created, session>>


\* ------------------------------------------------- the loop's iterations
\* One pass of the for-await body.  The runtime emits events only while a
\* turn it has received is waiting for its terminal result.
LoopStep(s, ev) ==
    /\ ~ResumePending(s)
    /\ proc[s].activeLoops > 0
    /\ proc[s].handed > proc[s].results
    /\ LET S1 == appendLogLine(session[s], ev.type)
           S2 == IF S1.shouldAbortSession THEN LoopFinally(S1) ELSE Reconcile(S1, ev)
           P1 == [proc[s] EXCEPT !.events = @ + (IF ev.type = "result" THEN 0 ELSE 1),
                                 !.results = @ + (IF ev.type = "result" THEN 1 ELSE 0),
                                 !.started = IF ev.type = "tool_use_start" /\ ev.parent = NoTool
                                             THEN MapSet(@, ev.index, ev.id) ELSE @,
                                 !.sentTo = IF ev.type = "input_json_delta" /\ ev.parent = NoTool
                                            THEN MapSet(@, ev.id, MapGet(@, ev.id, <<>>) \o ev.text)
                                            ELSE @]
       IN /\ session' = [session EXCEPT ![s] = Stored(S2)]
          /\ proc' = [proc EXCEPT ![s] =
                         IF S1.shouldAbortSession THEN LoopFinallyProc(P1) ELSE P1]
          /\ out' = S2.out
          /\ client' = Delivered(client, out')
    /\ UNCHANGED <<sessions, activeSessionId, created>>

RuntimeEvent(s) == \E ev \in ContentEvents : LoopStep(s, ev)

RuntimeResult(s) == LoopStep(s, ResultEvent)

\* The event stream raises: the catch block, then the finally block.
StreamRaise(s) ==
    /\ ~ResumePending(s)
    /\ proc[s].activeLoops > 0
    /\ LET S1 == LoopFinally(LoopCatch(session[s], ErrorText))
       IN /\ session' = [session EXCEPT ![s] = Stored(S1)]
          /\ out' = S1.out
          /\ client' = Delivered(client, out')
    /\ proc' = [proc EXCEPT ![s] = LoopFinallyProc(@)]
    /\ UNCHANGED <<sessions, activeSessionId, created>>

\* The event stream ends: the finally block alone.
StreamEnd(s) ==
    /\ ~ResumePending(s)
    /\ proc[s].activeLoops > 0
    /\ LET S1 == LoopFinally(session[s])
       IN /\ session' = [session EXCEPT ![s] = Stored(S1)]
          /\ out' = S1.out
          /\ client' = Delivered(client, out')
    /\ proc' = [proc EXCEPT ![s] = LoopFinallyProc(@)]
    /\ UNCHANGED <<sessions, activeSessionId, created>>

\* ------------------------------------------------ interruptCurrentResponse
\* "if (session.isInterruptingResponse) return true"
InterruptInFlight(S) == S.isInterruptingResponse

\* The session interruptCurrentResponse works on (NoSession: none).
InterruptTarget(sessionId) ==
    LET id == IF sessionId # NoSession THEN sessionId ELSE activeSessionId
    IN IF id # NoSession /\ Known(id) THEN id ELSE NoSession

\* How a call of interruptCurrentResponse goes before its await: it returns
\* false or true at once, or goes on to await the runtime's interrupt().
interruptResult(sessionId) ==
    LET id == InterruptTarget(sessionId)
    IN IF id = NoSession \/ ~session[id].querySession THEN "false"
       ELSE IF InterruptInFlight(session[id]) THEN "true"
       ELSE "awaits"

\* interruptCurrentResponse up to `await session.querySession.interrupt()`.
InterruptCall(sessionId) ==
    LET id == InterruptTarget(sessionId)
    IN IF interruptResult(sessionId) # "awaits"
       THEN UNCHANGED vars
       ELSE /\ session' = [session EXCEPT ![id].isInterruptingResponse = TRUE]
            /\ proc' = [proc EXCEPT ![id].interrupts = @ + 1]
            /\ out' = <<>>
            /\ client' = Delivered(client, out')
            /\ UNCHANGED <<sessions, activeSessionId, created>>

\* What follows a successful interrupt() inside the try block.
InterruptDone(S) == handleMessageStopped(Emit(S, "chat:message-stopped", "", 0))

\* The finally block of interruptCurrentResponse.
InterruptFinally(S) == [S EXCEPT !.isInterruptingResponse = FALSE]

\* The runtime's interrupt() returns or throws.
InterruptReturn(s, ok) ==
    /\ ~ResumePending(s)
    /\ proc[s].interrupts > 0
    /\ LET S1 == InterruptFinally(IF ok THEN InterruptDone(session[s]) ELSE session[s])
       IN /\ session' = [session EXCEPT ![s] = Stored(S1)]
          /\ out' = S1.out
          /\ client' = Delivered(client, out')
    /\ proc' = [proc EXCEPT ![s].interrupts = @ - 1]
    /\ UNCHANGED <<sessions, activeSessionId, created>>

\* ------------------------------------------------------- specification
\* The registry with every session's engine, within a small budget of turns;
\* the runtime answers each turn with its terminal result alone.  A start that
\* waits for an earlier loop's termination takes a second turn to the same
\* session; its resumption is explored by the single-session specifications.
Next ==
    \/ CreateSession
    \/ \E id \in SessionIds : SwitchSession(id)
    \/ \E id \in SessionIds : DeleteSession(id)
    \/ /\ TotalTurns < MaxRegistryTurns
       /\ \E text \in Texts, id \in SessionIds \cup {NoSession} : EnqueueUserMessage(text, id)
    \/ \E s \in SessionIds : RuntimePull(s)
    \/ \E s \in SessionIds : GenDequeue(s)
    \/ \E s \in SessionIds : ZombieDequeue(s)
    \/ \E s \in SessionIds : ZombiePull(s)
    \/ \E s \in SessionIds : RuntimeResult(s)
    \/ \E s \in SessionIds : StreamRaise(s)
    \/ \E s \in SessionIds : StreamEnd(s)

Spec == Init /\ [][Next]_vars

\* One session, as initializeAgent leaves the registry: the initial session
\* created and active.
FirstSession == 1

InitSession ==
    /\ sessions = <<FirstSession>>
    /\ activeSessionId = FirstSession
    /\ created = 1
    /\ session = [s \in SessionIds |-> NewSession(s)]
    /\ proc = [s \in SessionIds |-> NewProc]
    /\ out = <<>>
    /\ client = Detached

NextSession ==
    \/ /\ TotalTurns < MaxTurns
       /\ \E text \in Texts, id \in {FirstSession, NoSession} : EnqueueUserMessage(text, id)
    \/ StartResume(FirstSession)
    \/ RuntimePull(FirstSession)
    \/ GenDequeue(FirstSession)
    \/ ZombieDequeue(FirstSession)
    \/ ZombiePull(FirstSession)
    \/ /\ TotalEvents < MaxEvents
       /\ RuntimeEvent(FirstSession)
    \/ RuntimeResult(FirstSession)
    \/ StreamRaise(FirstSession)
    \/ StreamEnd(FirstSession)
    \/ \E id \in {FirstSession, NoSession} : InterruptCall(id)
    \/ \E ok \in BOOLEAN : InterruptReturn(FirstSession, ok)

SpecSession == InitSession /\ [][NextSession]_vars


\* One session's queue, generator and driving loops: turns are enqueued,
\* pulled and answered while loops start, fail and end; the runtime sends
\* no content and nobody interrupts.
NextLoop ==
    \/ /\ TotalTurns < MaxLoopTurns
       /\ \E text \in Texts : EnqueueUserMessage(text, FirstSession)
    \/ StartResume(FirstSession)
    \/ RuntimePull(FirstSession)
    \/ GenDequeue(FirstSession)
    \/ ZombieDequeue(FirstSession)
    \/ ZombiePull(FirstSession)
    \/ RuntimeResult(FirstSession)
    \/ StreamRaise(FirstSession)
    \/ StreamEnd(FirstSession)

SpecLoop == InitSession /\ [][NextLoop]_vars


\* One session whose runtime answers with tool invocations, nested ones and
\* tool results, while further user turns may arrive.
ToolName == <<"B">>

ParentIds == {"t1", "t2"}

ChildIds == {"c1"}

ResultTexts == {<<>>, <<"r">>}

SubagentEvents ==
    {ToolEvent("tool_use_start", 0, p, NoTool, ToolName) : p \in ParentIds}
    \cup {ToolEvent("tool_use_start", 1, c, p, ToolName) : c \in ChildIds, p \in ParentIds}
    \cup {ToolEvent("tool_result_start", 2, c, p, r) :
              c \in ChildIds, p \in {NoTool, "t1"}, r \in ResultTexts}

SubagentEvent(s) == \E ev \in SubagentEvents : LoopStep(s, ev)

NextSubagent ==
    \/ /\ TotalTurns < MaxToolTurns
       /\ EnqueueUserMessage(<<"h", "i", " ">>, FirstSession)
    \/ RuntimePull(FirstSession)
    \/ GenDequeue(FirstSession)
    \/ /\ TotalEvents < MaxSubagentEvents
       /\ SubagentEvent(FirstSession)
    \/ RuntimeResult(FirstSession)

SpecSubagent == InitSession /\ [][NextSubagent]_vars


\* One session whose runtime answers with top-level tool invocations: their
\* starts, argument deltas and segment stops.  A delta comes for a stream
\* index at which the runtime has opened a tool.
InputChunks ==
    {<<"{", "\"", "k", "\"", ":">>,
     <<" ", "1", "}">>,
     <<"{", "\"", "k", "\"", ":", " ", "1", "}">>}

InputStarts ==
    {ToolEvent("tool_use_start", 0, "t1", NoTool, ToolName),
     ToolEvent("tool_use_start", 0, "t2", NoTool, ToolName),
     ToolEvent("tool_use_start", 1, "t2", NoTool, ToolName)}

InputDeltas(P) ==
    {ToolEvent("input_json_delta", i, P.started[i], NoTool, chunk) :
        i \in DOMAIN P.started, chunk \in InputChunks}

InputStops == {Event("content_block_stop", i, <<>>) : i \in {0, 1}}

ToolInputEvent(s) ==
    \E ev \in InputStarts \cup InputDeltas(proc[s]) \cup InputStops : LoopStep(s, ev)

NextToolInput ==
    \/ /\ TotalTurns < MaxToolTurns
       /\ EnqueueUserMessage(<<"h", "i", " ">>, FirstSession)
    \/ RuntimePull(FirstSession)
    \/ GenDequeue(FirstSession)
    \/ /\ TotalEvents < MaxInputEvents
       /\ ToolInputEvent(FirstSession)
    \/ RuntimeResult(FirstSession)

SpecToolInput == InitSession /\ [][NextToolInput]_vars

\* The same with as many user turns as the single-session specification
\* takes, so that a turn can arrive while a tool's arguments stream.
NextToolInputTurns ==
    \/ /\ TotalTurns < MaxTurns
       /\ EnqueueUserMessage(<<"h", "i", " ">>, FirstSession)
    \/ RuntimePull(FirstSession)
    \/ GenDequeue(FirstSession)
    \/ /\ TotalEvents < MaxTurnsInputEvents
       /\ ToolInputEvent(FirstSession)
    \/ RuntimeResult(FirstSession)

SpecToolInputTurns == InitSession /\ [][NextToolInputTurns]_vars


\* One session's message log: user turns, the assistant turns that text and
\* reasoning events open, and the error turns of a failing stream.
LogEvents == {Event("text_delta", 0, <<"t">>), Event("thinking_start", 0, <<>>)}

LogEvent(s) == \E ev \in LogEvents : LoopStep(s, ev)

NextLog ==
    \/ /\ TotalTurns < MaxLogTurns
       /\ EnqueueUserMessage(<<"h", "i", " ">>, FirstSession)
    \/ StartResume(FirstSession)
    \/ RuntimePull(FirstSession)
    \/ GenDequeue(FirstSession)
    \/ ZombieDequeue(FirstSession)
    \/ ZombiePull(FirstSession)
    \/ /\ TotalEvents < MaxLogEvents
       /\ LogEvent(FirstSession)
    \/ RuntimeResult(FirstSession)
    \/ StreamRaise(FirstSession)

SpecLog == InitSession /\ [][NextLog]_vars

\* One session's message log under interrupts: the turns, text and
\* reasoning events and stream failures as above, a tool invocation, and
\* interruptions of the response.  A start that waits for an earlier loop's termination is
\* explored by the specification above.
StopEvents == LogEvents \cup {ToolEvent("tool_use_start", 1, "t1", NoTool, ToolName)}

StopEvent(s) == \E ev \in StopEvents : LoopStep(s, ev)

NextStop ==
    \/ /\ TotalTurns < MaxStopTurns
       /\ EnqueueUserMessage(<<"h", "i", " ">>, FirstSession)
    \/ RuntimePull(FirstSession)
    \/ GenDequeue(FirstSession)
    \/ ZombieDequeue(FirstSession)
    \/ ZombiePull(FirstSession)
    \/ /\ TotalEvents < MaxStopEvents
       /\ StopEvent(FirstSession)
    \/ RuntimeResult(FirstSession)
    \/ StreamRaise(FirstSession)
    \/ InterruptCall(FirstSession)
    \/ \E ok \in BOOLEAN : InterruptReturn(FirstSession, ok)

SpecStop == InitSession /\ [][NextStop]_vars


\* Two sessions side by side, as createSession leaves the registry after
\* initializeAgent: each takes user turns, streams, fails and is
\* interrupted on its own; the runtime's content is a tool invocation, and
\* a turn ends by a stream failure or an interrupt.
PairSessions == {FirstSession, FirstSession + 1}

InitPair ==
    /\ sessions = <<FirstSession, FirstSession + 1>>
    /\ activeSessionId = FirstSession
    /\ created = FirstSession + 1
    /\ session = [s \in SessionIds |-> NewSession(s)]
    /\ proc = [s \in SessionIds |-> NewProc]
    /\ out = <<>>
    /\ client = Detached

PairEnqueue(text, id) == TotalTurns < MaxPairTurns /\ EnqueueUserMessage(text, id)

PairEvent(s) ==
    /\ TotalEvents < MaxPairEvents
    /\ LoopStep(s, ToolEvent("tool_use_start", 0, "t1", NoTool, ToolName))

NextPair ==
    \/ \E id \in PairSessions \cup {NoSession} : PairEnqueue(<<"h", "i", " ">>, id)
    \/ \E s \in PairSessions : RuntimePull(s)
    \/ \E s \in PairSessions : GenDequeue(s)
    \/ \E s \in PairSessions : PairEvent(s)
    \/ \E s \in PairSessions : StreamRaise(s)
    \/ \E s \in PairSessions : InterruptCall(s)
    \/ \E s \in PairSessions, ok \in BOOLEAN : InterruptReturn(s, ok)

SpecPair == InitPair /\ [][NextPair]_vars

\* One session's log lines alone: appendLogLine is called again and again.
\* A line is told apart by its arrival number, as the timestamp it starts
\* with tells it apart in the program.
AppendLogLine(s) ==
    /\ proc[s].events < MaxRingLines
    /\ LET S == appendLogLine(session[s], proc[s].events + 1)
       IN /\ session' = [session EXCEPT ![s] = Stored(S)]
          /\ out' = S.out
          /\ client' = Delivered(client, out')
    /\ proc' = [proc EXCEPT ![s].events = @ + 1]
    /\ UNCHANGED <<sessions, activeSessionId, created>>

NextRing == AppendLogLine(FirstSession)

\* The initial session before its first line, or after the lines 1..n that
\* leave its ring two short of full.
InitRing ==
    /\ sessions = <<FirstSession>>
    /\ activeSessionId = FirstSession
    /\ created = 1
    /\ out = <<>>
    /\ client = Detached
    /\ \E n \in {0, LogLineLimit - 2} :
           /\ session = [s \in SessionIds |->
                            IF s = FirstSession
                            THEN [NewSession(s) EXCEPT !.logLines = [i \in 1..n |-> i]]
                            ELSE NewSession(s)]
           /\ proc = [s \in SessionIds |->
                         IF s = FirstSession THEN [NewProc EXCEPT !.events = n] ELSE NewProc]

SpecRing == InitRing /\ [][NextRing]_vars

\* One session whose runtime answers with reasoning: the starts, deltas
\* and segment stops of stream index 0, of the top-level message and of a
\* message that carries a parent tool id, while a further user turn may
\* arrive.
ThinkingStops ==
    {ToolEvent("content_block_stop", 0, NoTool, p, <<>>) : p \in {NoTool, "t1"}}

ThinkingEvents ==
    {ToolEvent("thinking_start", 0, NoTool, p, <<>>) : p \in {NoTool, "t1"}}
    \cup {Event("thinking_delta", 0, <<"h">>)}
    \cup ThinkingStops

ThinkingEvent(s) == \E ev \in ThinkingEvents : LoopStep(s, ev)

NextThinking ==
    \/ /\ TotalTurns < MaxThinkingTurns
       /\ EnqueueUserMessage(<<"h", "i", " ">>, FirstSession)
    \/ RuntimePull(FirstSession)
    \/ GenDequeue(FirstSession)
    \/ /\ TotalEvents < MaxThinkingEvents
       /\ ThinkingEvent(FirstSession)
    \/ RuntimeResult(FirstSession)

SpecThinking == InitSession /\ [][NextThinking]_vars

\* One session's text stream: user turns, text and reasoning events,
\* terminal results and stream failures, each start finding no earlier
\* loop to wait for.
NextText ==
    \/ /\ TotalTurns < MaxTextTurns
       /\ EnqueueUserMessage(<<"h", "i", " ">>, FirstSession)
    \/ RuntimePull(FirstSession)
    \/ GenDequeue(FirstSession)
    \/ /\ TotalEvents < MaxTextEvents
       /\ LogEvent(FirstSession)
    \/ RuntimeResult(FirstSession)
    \/ StreamRaise(FirstSession)

SpecText == InitSession /\ [][NextText]_vars


\* One session whose runtime opens tools at a stream index it has used
\* before: top-level tools t1 and t2 and the nested tool c1 under t1 all
\* start at index 0, and argument deltas of the top-level message come for
\* the top-level tool the runtime has opened there.
ReuseStarts ==
    {ToolEvent("tool_use_start", 0, "t1", NoTool, ToolName),
     ToolEvent("tool_use_start", 0, "t2", NoTool, ToolName),
     ToolEvent("tool_use_start", 0, "c1", "t1", ToolName)}

ReuseEvent(s) == \E ev \in ReuseStarts \cup InputDeltas(proc[s]) : LoopStep(s, ev)

NextReuse ==
    \/ /\ TotalTurns < MaxReuseTurns
       /\ EnqueueUserMessage(<<"h", "i", " ">>, FirstSession)
    \/ RuntimePull(FirstSession)
    \/ GenDequeue(FirstSession)
    \/ /\ TotalEvents < MaxReuseEvents
       /\ ReuseEvent(FirstSession)
    \/ RuntimeResult(FirstSession)

SpecReuse == InitSession /\ [][NextReuse]_vars


\* One session whose runtime reports tool results in answer to the first
\* user turn: the top-level tool t1
\* and the nested tool c1 under it start, and for either the result
\* starts as an error, grows by deltas and is completed by a user message
\* (which carries no is_error) or by an assistant message without is_error
\* (which the loop takes as false).
ResultTargets == {[id |-> "t1", parent |-> NoTool], [id |-> "c1", parent |-> "t1"]}

ResultEvents ==
    {ToolEvent("tool_use_start", 0, "t1", NoTool, ToolName),
     ToolEvent("tool_use_start", 1, "c1", "t1", ToolName)}
    \cup {ToolResultEvent("tool_result_start", 2, x.id, x.parent, <<"r">>, <<TRUE>>) :
              x \in ResultTargets}
    \cup {ToolEvent("text_delta", 0, NoTool, x.id, <<"d">>) : x \in ResultTargets}
    \cup {ToolResultEvent("user", 0, "c1", "t1", <<"c">>, <<>>)}
    \cup {ToolResultEvent("assistant", 0, x.id, NoTool, <<"c">>, <<>>) : x \in ResultTargets}

ToolResultStep(s) == \E ev \in ResultEvents : LoopStep(s, ev)

NextResult ==
    \/ /\ session[FirstSession].messages = <<>>
       /\ EnqueueUserMessage(<<"h", "i", " ">>, FirstSession)
    \/ RuntimePull(FirstSession)
    \/ GenDequeue(FirstSession)
    \/ /\ TotalEvents < MaxResultEvents
       /\ ToolResultStep(FirstSession)
    \/ RuntimeResult(FirstSession)

SpecResult == InitSession /\ [][NextResult]_vars


\* One session whose runtime reports the result of the nested tool c1
\* under t1 and starts c1, in either order, in answer to the first user
\* turn; the start brings c1's input, empty or not.
BackfillInputs == {EmptyInput, <<"{", "\"", "k", "\"", ":", "1", "}">>}

BackfillEvents ==
    {ToolEvent("tool_use_start", 0, "t1", NoTool, ToolName),
     ToolResultEvent("tool_result_start", 2, "c1", "t1", <<"r">>, <<>>)}
    \cup {ToolStartEvent(1, "c1", "t1", ToolName, input) : input \in BackfillInputs}

BackfillEvent(s) == \E ev \in BackfillEvents : LoopStep(s, ev)

NextBackfill ==
    \/ /\ session[FirstSession].messages = <<>>
       /\ EnqueueUserMessage(<<"h", "i", " ">>, FirstSession)
    \/ RuntimePull(FirstSession)
    \/ GenDequeue(FirstSession)
    \/ /\ TotalEvents < MaxBackfillEvents
       /\ BackfillEvent(FirstSession)
    \/ RuntimeResult(FirstSession)

SpecBackfill == InitSession /\ [][NextBackfill]_vars


\* One session whose runtime sends tool arguments that are no JSON, in
\* answer to the first user turn: the top-level tool t1 and the nested tool
\* c1 under it start, take argument deltas that are malformed (a closing
\* brace) or cut short (an open member name), and stop.
MalformedChunks == {<<"}">>, <<"{", "\"", "k">>}

MalformedEvents ==
    {ToolEvent("tool_use_start", 0, "t1", NoTool, ToolName),
     ToolEvent("tool_use_start", 1, "c1", "t1", ToolName),
     ToolEvent("content_block_stop", 0, NoTool, NoTool, <<>>),
     ToolEvent("content_block_stop", 1, NoTool, "t1", <<>>)}
    \cup {ToolEvent("input_json_delta", 0, "t1", NoTool, chunk) : chunk \in MalformedChunks}
    \cup {ToolEvent("input_json_delta", 1, "c1", "t1", chunk) : chunk \in MalformedChunks}

MalformedEvent(s) == \E ev \in MalformedEvents : LoopStep(s, ev)

NextMalformed ==
    \/ /\ session[FirstSession].messages = <<>>
       /\ EnqueueUserMessage(<<"h", "i", " ">>, FirstSession)
    \/ RuntimePull(FirstSession)
    \/ GenDequeue(FirstSession)
    \/ /\ TotalEvents < MaxMalformedEvents
       /\ MalformedEvent(FirstSession)
    \/ RuntimeResult(FirstSession)

SpecMalformed == InitSession /\ [][NextMalformed]_vars


\* One session with a renderer attached from the start: user turns and
\* the ends of turns; the transport opens again (init) and delivers the
\* message-replay of a logged user turn a second time.
InitClient ==
    /\ sessions = <<FirstSession>>
    /\ activeSessionId = FirstSession
    /\ created = 1
    /\ session = [s \in SessionIds |-> NewSession(s)]
    /\ proc = [s \in SessionIds |-> NewProc]
    /\ out = <<>>
    /\ client = NewClient

\* The ids of the user turns in the log of S.
UserIds(S) == {S.messages[i].id : i \in {j \in 1..Len(S.messages) : S.messages[j].role = "user"}}

ClientInit ==
    /\ client.messages # <<>>
    /\ client' = onInit(client)
    /\ out' = <<>>
    /\ UNCHANGED <<sessions, activeSessionId, created, session, proc>>

Redeliver(id) ==
    /\ client.replays < MaxReplays
    /\ client' = [onMessageReplay(client, id) EXCEPT !.replays = @ + 1]
    /\ out' = <<>>
    /\ UNCHANGED <<sessions, activeSessionId, created, session, proc>>

NextClient ==
    \/ /\ TotalTurns < MaxClientTurns
       /\ EnqueueUserMessage(<<"h", "i", " ">>, FirstSession)
    \/ RuntimePull(FirstSession)
    \/ GenDequeue(FirstSession)
    \/ RuntimeResult(FirstSession)
    \/ ClientInit
    \/ \E id \in UserIds(session[FirstSession]) : Redeliver(id)

SpecClient == InitClient /\ [][NextClient]_vars


\* One session under fair scheduling: user turns, the generator and the
\* runtime's pulls, the terminal result of a turn, the end and the failure
\* of the event stream, the generator an ended loop leaves behind, and the
\* start request that waited for the loop's termination.
NextLive ==
    \/ /\ TotalTurns < MaxLiveTurns
       /\ EnqueueUserMessage(<<"h", "i", " ">>, FirstSession)
    \/ StartResume(FirstSession)
    \/ RuntimePull(FirstSession)
    \/ GenDequeue(FirstSession)
    \/ ZombieDequeue(FirstSession)
    \/ ZombiePull(FirstSession)
    \/ RuntimeResult(FirstSession)
    \/ StreamEnd(FirstSession)
    \/ StreamRaise(FirstSession)

\* The runtime keeps asking for input while its stream is open, the
\* generator's timer keeps polling the queue (that of a generator left
\* behind as well), and a resumed start request runs in the next microtask.
\* Nothing obliges a user to submit, a stream to end or fail, or an ended
\* runtime to ask again.
LiveFairness ==
    /\ WF_vars(RuntimePull(FirstSession))
    /\ WF_vars(GenDequeue(FirstSession))
    /\ WF_vars(ZombieDequeue(FirstSession))
    /\ WF_vars(StartResume(FirstSession))

SpecLive == InitSession /\ [][NextLive]_vars /\ LiveFairness


\* One session with a renderer attached from the start and never opened
\* again: user turns, the runtime's text, the start of reasoning, one
\* top-level tool and the argument deltas of a tool it has started, the
\* terminal result of a turn and the failure of the stream.
MirrorEvents(P) ==
    {Event("text_delta", 0, <<"t">>),
     Event("thinking_start", 0, <<>>),
     ToolEvent("tool_use_start", 1, "t1", NoTool, ToolName)}
    \cup {ToolEvent("input_json_delta", i, P.started[i], NoTool, <<"{", "}">>) :
              i \in DOMAIN P.started}

MirrorEvent(s) == \E ev \in MirrorEvents(proc[s]) : LoopStep(s, ev)

NextMirror ==
    \/ /\ TotalTurns < MaxMirrorTurns
       /\ EnqueueUserMessage(<<"h", "i", " ">>, FirstSession)
    \/ RuntimePull(FirstSession)
    \/ GenDequeue(FirstSession)
    \/ /\ TotalEvents < MaxMirrorEvents
       /\ MirrorEvent(FirstSession)
    \/ RuntimeResult(FirstSession)
    \/ StreamRaise(FirstSession)

SpecMirror == InitClient /\ [][NextMirror]_vars

\* ================================================================ claims
\* The states named by the chat:status notifications of session s in a
\* sequence of broadcasts, in order.
StatusesOf(o, s) ==
    LET hits == SelectSeq(o, LAMBDA b : b.type = "chat:status" /\ b.sid = s)
    IN [i \in 1..Len(hits) |-> hits[i].arg]

LifecycleTransitions ==
    {<<"idle", "running">>, <<"running", "idle">>,
     <<"running", "error">>, <<"error", "running">>}

StepsAlong(path) ==
    \A i \in 1..(Len(path) - 1) : <<path[i], path[i + 1]>> \in LifecycleTransitions

\* C1: every change of a session's lifecycle state, with the chat:status
\* notification that announces it, is one of idle->running, running->idle,
\* running->error, error->running.
C1_LifecycleTransitionsOnly ==
    [][\A s \in SessionIds :
          /\ StepsAlong(<<session[s].sessionState>> \o StatusesOf(out', s))
          /\ session[s].sessionState # session'[s].sessionState =>
                 <<session[s].sessionState, session'[s].sessionState>>
                     \in LifecycleTransitions]_vars

C3_DeleteRejectedWhileActive ==
    \A id \in SessionIds :
        (Known(id) /\ isSessionActive(session[id])) => ~deleteSessionResult(id)

\* C4: at most one driving loop is active per session, and a start request
\* proceeds past the guard only when no loop is active and no termination
\* is pending.
C4_OneDrivingLoop ==
    [][\A s \in SessionIds :
          /\ proc'[s].activeLoops <= 1
          /\ proc'[s].activeLoops > proc[s].activeLoops =>
                 /\ proc[s].activeLoops = 0
                 /\ ~isSessionActive(session[s])
                 /\ session[s].sessionTerminationPromise # "pending"]_vars

\* A loop is active while a start request whose awaited termination has
\* settled is about to resume.
C4_Witness ==
    \E s \in SessionIds :
        /\ proc[s].activeLoops = 1
        /\ proc[s].startsSettled > 0
        /\ isSessionActive(session[s])

\* The ids of the turns enqueued to a session, in submission order: the
\* user messages of its log.
SubmittedTurns(S) ==
    LET users == SelectSeq(S.messages, LAMBDA m : m.role = "user")
    IN [i \in 1..Len(users) |-> users[i].id]

\* C5: the turns yielded by the session's generators, in order, are a
\* prefix of the turns enqueued to it in submission order.
C5_YieldedIsPrefixOfSubmitted ==
    \A s \in SessionIds : IsPrefix(proc[s].yielded, SubmittedTurns(session[s]))

\* Three turns have been yielded, the last after the loop failed and a new
\* loop was started.
C5_Witness ==
    \E s \in SessionIds :
        /\ Len(proc[s].yielded) = 3
        /\ proc[s].activeLoops = 1
        /\ \E i \in 1..Len(session[s].messages) :
               /\ session[s].messages[i].role = "assistant"
               /\ i < Len(session[s].messages)
               /\ proc[s].yielded[3] > session[s].messages[i].id

QueuedTurns(S) == {S.messageQueue[i].turn : i \in 1..Len(S.messageQueue)}

\* C6: a turn's completion promise is resolved only after the turn was
\* shifted from the queue and yielded, never while it is queued, and the
\* resolving step is open to the runtime whatever events are outstanding.
C6_ResolvedOnlyAfterHandOff ==
    \A s \in SessionIds :
        /\ proc[s].resolved \subseteq SeqToSet(proc[s].yielded)
        /\ proc[s].resolved \cap QueuedTurns(session[s]) = {}
        /\ (proc[s].activeLoops > 0 /\ proc[s].gen = "yielded") => ENABLED RuntimePull(s)

\* A turn's promise has resolved while the runtime still owes the turn's
\* terminal result, and a later turn is still queued.
C6_Witness ==
    \E s \in SessionIds :
        /\ proc[s].activeLoops = 1
        /\ proc[s].handed = 1
        /\ proc[s].results = 0
        /\ proc[s].resolved # {}
        /\ proc[s].held = -1
        /\ session[s].messageQueue # <<>>

\* C7: while an interruptCurrentResponse call is in flight on a session, a
\* second call on that session returns true and changes nothing (no second
\* interrupt(), no broadcast, the same state and message log); when the
\* first call finishes the in-flight flag is cleared.
C7_SecondInterruptIsNoOpSuccess ==
    [][\A s \in SessionIds :
          /\ (Known(s) /\ proc[s].interrupts > 0) =>
                 /\ interruptResult(s) = "true"
                 /\ InterruptCall(s) => UNCHANGED vars
          /\ (proc[s].interrupts > 0 /\ proc'[s].interrupts = 0) =>
                 ~session'[s].isInterruptingResponse]_vars

\* The last step was a successful interrupt of session s: it broadcast
\* chat:message-stopped.
InterruptSucceeded(s) ==
    \E i \in 1..Len(out) : out[i].type = "chat:message-stopped" /\ out[i].sid = s

\* C8: a successful interruptCurrentResponse leaves the session's abort
\* flag set.
C8_InterruptSetsAbortFlag ==
    \A s \in SessionIds : InterruptSucceeded(s) => session[s].shouldAbortSession

HasOpenThinking(S) ==
    \E i \in 1..Len(S.messages) :
        /\ ~S.messages[i].content.isString
        /\ \E j \in 1..Len(S.messages[i].content.blocks) :
               /\ S.messages[i].content.blocks[j].type = "thinking"
               /\ ~S.messages[i].content.blocks[j].isComplete

\* C9: right after a successful interruptCurrentResponse the session is
\* idle and no thinking block of its message log is open.
C9_InterruptClosesThinking ==
    \A s \in SessionIds :
        InterruptSucceeded(s) =>
            session[s].sessionState = "idle" /\ ~HasOpenThinking(session[s])

\* C10: while a session is idle every turn handed to the live runtime has
\* received its terminal result, or no loop is running.
C10_IdleHasNoInFlightTurn ==
    \A s \in SessionIds :
        session[s].sessionState = "idle" =>
            proc[s].activeLoops = 0 \/ proc[s].handed = proc[s].results

\* The active pointer is null or names a registered session, and it is set
\* whenever the registry is not empty.
ActivePointerValid ==
    /\ activeSessionId = NoSession \/ Known(activeSessionId)
    /\ sessions # <<>> => activeSessionId # NoSession

LoopExited(S) ==
    ~S.isProcessing /\ ~S.querySession /\ S.sessionTerminationPromise = "resolved"

\* C12: when the event stream raises, an assistant error turn becomes the
\* last message, chat:message-error is broadcast, the state ends as error
\* and the loop has exited with its three resets; the resets also follow
\* every other exit of the loop.
C12_ErrorTurnAndLoopExit ==
    [][\A s \in SessionIds :
          /\ StreamRaise(s) =>
                 /\ Len(session'[s].messages) = Len(session[s].messages) + 1
                 /\ LastMessage(session'[s]).role = "assistant"
                 /\ LastMessage(session'[s]).content = StringContent(ErrorPrefix \o ErrorText)
                 /\ \E i \in 1..Len(out') :
                        out'[i].type = "chat:message-error" /\ out'[i].sid = s
                 /\ session'[s].sessionState = "error"
                 /\ LoopExited(session'[s])
          /\ proc'[s].activeLoops < proc[s].activeLoops =>
                 LoopExited(session'[s]) /\ proc'[s].activeLoops = 0]_vars

\* The stream has just raised during the second turn: the error turn is the
\* last message and the loop is gone.
C12_Witness ==
    \E s \in SessionIds :
        /\ \E i \in 1..Len(out) : out[i].type = "chat:message-error" /\ out[i].sid = s
        /\ session[s].sessionState = "error"
        /\ LoopExited(session[s])
        /\ proc[s].activeLoops = 0
        /\ Len(session[s].messages) >= 3
        /\ LastMessage(session[s]).role = "assistant"

\* A session in state error has no driving loop and no start request.
NoLoopInError ==
    \A s \in SessionIds :
        session[s].sessionState = "error" =>
            /\ proc[s].activeLoops = 0
            /\ proc[s].startsSettled = 0
            /\ proc[s].startsUnsettled = 0

\* C13: while a session is in state error no driving loop runs and none is
\* about to start; the next accepted enqueueUserMessage moves the state to
\* running and files one start request, and the start that follows opens
\* one loop with a fresh generator on the session's unchanged queue.
C13_RestartOnlyByEnqueue ==
    /\ []NoLoopInError
    /\ [][\A s \in SessionIds :
             /\ (session[s].sessionState = "error" /\ proc'[s].turns > proc[s].turns) =>
                    /\ session'[s].sessionState = "running"
                    /\ proc'[s].startsSettled = 1
                    /\ proc'[s].activeLoops = 0
                    /\ Len(session'[s].messageQueue) = Len(session[s].messageQueue) + 1
             /\ (session[s].sessionTerminationPromise = "resolved"
                   /\ proc'[s].activeLoops > proc[s].activeLoops) =>
                    /\ proc[s].startsSettled > proc'[s].startsSettled
                    /\ proc'[s].activeLoops = 1
                    /\ proc'[s].gen = "unpulled"
                    /\ session'[s].messageQueue = session[s].messageQueue
                    /\ session'[s].sessionState = "running"]_vars

\* After a failure a new turn was enqueued and the start it requested has
\* opened the one new loop, with the turn still in the queue.
C13_Witness ==
    \E s \in SessionIds :
        /\ \E i \in 1..Len(session[s].messages) :
               session[s].messages[i].role = "assistant" /\ i < Len(session[s].messages)
        /\ LastMessage(session[s]).role = "user"
        /\ proc[s].activeLoops = 1
        /\ proc[s].gen = "unpulled"
        /\ proc[s].startsSettled = 0
        /\ session[s].messageQueue # <<>>
        /\ session[s].sessionState = "running"

\* What the three operations report for an id that is not registered.
MisuseReported ==
    \A id \in SessionIds :
        ~Known(id) =>
            /\ \A text \in Texts : Trim(text) # <<>> => enqueueResult(text, id) = "throw"
            /\ ~switchSessionResult(id)
            /\ ~deleteSessionResult(id)

\* C14: enqueueUserMessage with an unknown session id throws, and
\* switchSession and deleteSession with an unknown id return false; none of
\* the three changes any state or broadcasts anything.
C14_MisuseChangesNothing ==
    /\ []MisuseReported
    /\ [][\A id \in SessionIds :
             ~Known(id) =>
                 /\ \A text \in Texts :
                        (Trim(text) # <<>> /\ EnqueueUserMessage(text, id)) => UNCHANGED vars
                 /\ SwitchSession(id) => UNCHANGED vars
                 /\ DeleteSession(id) => UNCHANGED vars]_vars

\* A session that took a turn has been deleted, so its id is unknown again,
\* while another session is registered and active.
C14_Witness ==
    \E id \in SessionIds :
        /\ id <= created
        /\ ~Known(id)
        /\ session[id].messages # <<>>
        /\ activeSessionId # NoSession
        /\ activeSessionId # id


\* The kinds of the top-level segments of every message, in order.
TopSegments(S) ==
    [i \in 1..Len(S.messages) |->
        [k \in 1..Len(S.messages[i].content.blocks) |-> S.messages[i].content.blocks[k].type]]

\* Where the top-level ToolRecords are: <<message, segment>>.
ToolPositions(S) ==
    UNION {{<<i, k>> : k \in {n \in 1..Len(S.messages[i].content.blocks) :
                                   S.messages[i].content.blocks[n].type = "tool_use"}} :
           i \in 1..Len(S.messages)}

NestedStarts == {ev \in SubagentEvents : ev.type = "tool_use_start" /\ ev.parent # NoTool}

\* What a nested start ev leaves behind, from session record S to T.
NestedStartRecorded(S, T, ev) ==
    /\ Len(T.messages) = Len(S.messages)
    /\ TopSegments(T) = TopSegments(S)
    /\ \A pos \in ToolPositions(S) :
          \/ ToolAt(T, pos) = ToolAt(S, pos)
          \/ /\ pos = findToolBlockById(S, ev.parent)
             /\ [ToolAt(T, pos) EXCEPT !.subagentCalls = <<>>]
                    = [ToolAt(S, pos) EXCEPT !.subagentCalls = <<>>]
    /\ findToolBlockById(S, ev.parent) # <<0, 0>> =>
          LET calls == ToolAt(T, findToolBlockById(S, ev.parent)).subagentCalls
          IN /\ FirstCallById(calls, ev.id) > 0
             /\ calls[FirstCallById(calls, ev.id)].name = ev.text
             /\ MapGet(T.childToolToParent, ev.id, NoTool) = ev.parent

\* C15: a tool-invocation start tagged with a parent tool id leaves the
\* top-level segments of every message as they were (no tool_use segment is
\* added, whether the parent is known or not and whether the id was seen
\* before or not); where the parent's ToolRecord exists, the call is in that
\* parent's subagentCalls and no other ToolRecord has changed.
C15_NestedStartNeverTopLevel ==
    [][\A ev \in NestedStarts :
          LoopStep(FirstSession, ev) =>
              NestedStartRecorded(session[FirstSession], session'[FirstSession], ev)]_vars

\* A nested start has just recorded its call under the parent t1.
C15_Witness ==
    LET S == session[FirstSession]
    IN /\ \E pos \in ToolPositions(S) :
              /\ ToolAt(S, pos).id = "t1"
              /\ FirstCallById(ToolAt(S, pos).subagentCalls, "c1") > 0
              /\ ToolAt(S, pos).subagentCalls[1].name = ToolName
       /\ \E i \in 1..Len(out) : out[i].type = "chat:subagent-tool-use"


\* A tool result with text for a child that is mapped to no parent yet,
\* tagged with a parent that is a top-level ToolRecord of S.
ResultBeforeStart(S, ev) ==
    /\ ev.type = "tool_result_start"
    /\ ev.text # <<>>
    /\ ev.parent # NoTool
    /\ ~MapHas(S.childToolToParent, ev.id)
    /\ findToolBlockById(S, ev.parent) # <<0, 0>>

\* The placeholder of such a result, from session record S to T.
PlaceholderHoldsResult(S, T, ev) ==
    LET pos == findToolBlockById(S, ev.parent)
        calls == ToolAt(T, pos).subagentCalls
        call == calls[FirstCallById(calls, ev.id)]
    IN /\ FirstCallById(ToolAt(S, pos).subagentCalls, ev.id) = 0
       /\ FirstCallById(calls, ev.id) = Len(ToolAt(S, pos).subagentCalls) + 1
       /\ call.name = PlaceholderName
       /\ call.result = ev.text
       /\ MapGet(T.childToolToParent, ev.id, NoTool) = ev.parent

OwnDeltasOnly(S) ==
    \A pos \in ToolPositions(S) :
        /\ Len(ToolAt(S, pos).inputFrom) = Len(ToolAt(S, pos).inputJson)
        /\ \A c \in 1..Len(ToolAt(S, pos).inputFrom) :
               ToolAt(S, pos).inputFrom[c] = ToolAt(S, pos).id

BuffersOwnDeltasOnly == OwnDeltasOnly(session[FirstSession])

\* From S to T at most one buffer changes, and it changes by the text of
\* one delta arriving at its end.
BuffersGrowAtEnd(S, T) ==
    /\ \A pos \in ToolPositions(S) :
           \/ ToolAt(T, pos).inputJson = ToolAt(S, pos).inputJson
           \/ \E chunk \in InputChunks :
                  ToolAt(T, pos).inputJson = ToolAt(S, pos).inputJson \o chunk
    /\ \A p1, p2 \in ToolPositions(S) :
           \/ p1 = p2
           \/ ToolAt(T, p1).inputJson = ToolAt(S, p1).inputJson
           \/ ToolAt(T, p2).inputJson = ToolAt(S, p2).inputJson

\* C16: for every interleaving of starts and argument deltas of top-level
\* tools, each ToolRecord's inputJson holds only text of deltas meant for
\* its own id, and a step changes at most one buffer, by appending one
\* delta's text at its end: the buffer is the concatenation of its own
\* deltas in arrival order.
C16_BufferHoldsOwnDeltasInOrder ==
    /\ []BuffersOwnDeltasOnly
    /\ [][BuffersGrowAtEnd(session[FirstSession], session'[FirstSession])]_vars

\* Two tools open at once, the second at the stream index of the first: the
\* delta that followed went to t2 and left t1 empty.
C16_Witness ==
    LET S == session[FirstSession]
    IN \E p1, p2 \in ToolPositions(S) :
           /\ ToolAt(S, p1).id = "t1"
           /\ ToolAt(S, p2).id = "t2"
           /\ ToolAt(S, p2).streamIndex = ToolAt(S, p1).streamIndex
           /\ ToolAt(S, p1).inputJson = <<>>
           /\ ToolAt(S, p2).inputJson = <<"{", "\"", "k", "\"", ":">>


\* The segment stops a step has just handled: the stream indices of its
\* chat:content-block-stop notifications.
StopsHandled(o) == {o[i].n : i \in {j \in 1..Len(o) : o[j].type = "chat:content-block-stop"}}

\* In session record T the only ToolRecord of id toolId holds, as its
\* structured input, the strict parse of text whenever text is valid JSON.
FrozenInputIs(T, toolId, text) ==
    (JsonParse(text).ok /\ Cardinality({pos \in ToolPositions(T) : ToolAt(T, pos).id = toolId}) = 1)
        => \A pos \in ToolPositions(T) :
               ToolAt(T, pos).id = toolId => ToolAt(T, pos).parsedInput = JsonParse(text).value

\* C18: when the segment of a top-level tool stops and the deltas the
\* runtime sent for that tool concatenate to valid JSON, the ToolRecord's
\* parsedInput is the strict parse of that concatenation, however the text
\* was split into deltas.
C18_StopFreezesStrictParse ==
    [][\A index \in StopsHandled(out') :
          index \in DOMAIN proc[FirstSession].started =>
              FrozenInputIs(session'[FirstSession], proc[FirstSession].started[index],
                            MapGet(proc[FirstSession].sentTo,
                                   proc[FirstSession].started[index], <<>>))]_vars


\* The ids of the log of S grow strictly along it and lie below the
\* turn-sequence counter.
IdsIncrease(S) ==
    /\ \A i, j \in 1..Len(S.messages) : i < j => S.messages[i].id < S.messages[j].id
    /\ \A i \in 1..Len(S.messages) : S.messages[i].id < S.messageSequence

MessageIdsIncrease == IdsIncrease(session[FirstSession])

\* C19: within a session the message ids are distinct and strictly
\* increasing in log order, whatever the interleaving of user turns,
\* assistant turns opened by reconciliation and error turns; no id reaches
\* the turn-sequence counter, and the counter never decreases.
C19_MessageIdsStrictlyIncrease ==
    /\ []MessageIdsIncrease
    /\ [][session'[FirstSession].messageSequence >= session[FirstSession].messageSequence]_vars

\* A log with a user turn, an assistant turn opened by an event, an error
\* turn and a user turn after it.
C19_Witness ==
    LET log == session[FirstSession].messages
    IN \E i, j, k, l \in 1..Len(log) :
           /\ i < j /\ j < k /\ k < l
           /\ log[i].role = "user"
           /\ log[j].role = "assistant" /\ log[j].content.text = <<"t">>
           /\ log[k].role = "assistant" /\ log[k].content.text = ErrorPrefix \o ErrorText
           /\ log[l].role = "user"


\* From content a to content b of one message: a segment sequence stays
\* one, and a non-empty string that becomes a segment sequence is its first
\* segment, a text segment.
PromotedOnce(a, b) ==
    /\ ~a.isString => ~b.isString
    /\ (a.isString /\ ~b.isString /\ a.text # <<>>) =>
           (b.blocks # <<>> /\ b.blocks[1] = TextBlock(a.text))

\* From session record S to T: the log keeps its messages, each of them
\* promoted at most once.  A message enters the log with string content or,
\* where the step that opens it promotes it at once, as the promotion of
\* the empty string: a segment sequence that no text segment begins.
ContentPromotedOnce(S, T) ==
    /\ Len(T.messages) >= Len(S.messages)
    /\ \A i \in 1..Len(S.messages) :
           PromotedOnce(S.messages[i].content, T.messages[i].content)
    /\ \A i \in (Len(S.messages) + 1)..Len(T.messages) :
           \/ T.messages[i].content.isString
           \/ /\ T.messages[i].content.blocks # <<>>
              /\ T.messages[i].content.blocks[1].type # "text"

\* C20: every message's content starts as a string and changes
\* representation at most once, from string to segment sequence: through
\* every event and interrupt a segment sequence never becomes a string
\* again, and the promotion of a non-empty string keeps its text as the
\* first text segment.
C20_ContentPromotedAtMostOnce ==
    [][ContentPromotedOnce(session[FirstSession], session'[FirstSession])]_vars

\* A message whose text "t" was promoted by a reasoning start, after an
\* interrupt has closed the reasoning segment.
C20_Witness ==
    \E i \in 1..Len(session[FirstSession].messages) :
        LET c == session[FirstSession].messages[i].content
        IN /\ ~c.isString
           /\ Len(c.blocks) = 2
           /\ c.blocks[1] = TextBlock(<<"t">>)
           /\ c.blocks[2] = [ThinkingBlock(0) EXCEPT !.isComplete = TRUE]
           /\ proc[FirstSession].interrupts > 0

\* ---------------------------------------------------------------- C21
\* A segment keeps its place: the later one has its kind, a tool_use
\* segment its tool id, a text or reasoning segment its stream index and
\* the text it had as the beginning of its text.
SegmentKept(a, b) ==
    /\ b.type = a.type
    /\ IF a.type = "tool_use" THEN b.tool.id = a.tool.id
       ELSE b.thinkingStreamIndex = a.thinkingStreamIndex /\ IsPrefix(a.text, b.text)

\* A content keeps its segments; a string content counts as one text
\* segment, none when it is empty.
ContentKept(a, b) ==
    IF a.isString
    THEN IF b.isString THEN IsPrefix(a.text, b.text)
         ELSE \/ a.text = <<>>
              \/ /\ b.blocks # <<>>
                 /\ b.blocks[1].type = "text"
                 /\ IsPrefix(a.text, b.blocks[1].text)
    ELSE /\ ~b.isString
         /\ Len(b.blocks) >= Len(a.blocks)
         /\ \A k \in 1..Len(a.blocks) : SegmentKept(a.blocks[k], b.blocks[k])

LogKept(S, T) ==
    /\ Len(T.messages) >= Len(S.messages)
    /\ \A i \in 1..Len(S.messages) :
           /\ T.messages[i].id = S.messages[i].id
           /\ T.messages[i].role = S.messages[i].role
           /\ ContentKept(S.messages[i].content, T.messages[i].content)

\* C21: the message log is append-only.  Over every step no message and no
\* content segment is removed or reordered: every message keeps its place,
\* id and role, every segment its place and kind, and a tool_use segment
\* for tool id T at (message m, segment k) still holds the record with id T
\* there.
C21_MessageLogAppendOnly ==
    [][\A s \in SessionIds : LogKept(session[s], session'[s])]_vars

\* A tool_use segment that stands behind a text segment in an assistant
\* message which an interrupt has stopped, after the turn's text was
\* promoted to segments.
C21_Witness ==
    /\ Len(session[FirstSession].messages) = 2
    /\ ~session[FirstSession].messages[2].content.isString
    /\ Len(session[FirstSession].messages[2].content.blocks) = 2
    /\ session[FirstSession].messages[2].content.blocks[1].type = "text"
    /\ IsToolBlock(session[FirstSession].messages[2].content.blocks[2], "t1")
    /\ ~session[FirstSession].isStreamingMessage
    /\ \E i \in 1..Len(out) : out[i].type = "chat:message-stopped"

\* ---------------------------------------------------------------- C22
\* The message log and the three tracker maps of a session.
LogAndTracker(S) ==
    <<S.messages, S.streamIndexToToolId, S.toolResultIndexToId, S.childToolToParent>>

\* The step is one of the driving loop of session s: an iteration of the
\* for-await body, which logs its event first, or the catch block.
StepOfLoop(o, s) ==
    \E i \in 1..Len(o) : o[i].sid = s /\ o[i].type \in {"chat:log", "chat:message-error"}

\* C22: while a driving loop of a session is active its message log and
\* tracker maps are changed by that loop's steps alone: no call of
\* enqueueUserMessage, of interruptCurrentResponse or of the registry
\* changes them.
C22_LogChangedByLoopOnly ==
    [][\A s \in SessionIds :
          (proc[s].activeLoops > 0 /\ LogAndTracker(session'[s]) # LogAndTracker(session[s]))
              => StepOfLoop(out', s)]_vars

\* ---------------------------------------------------------------- C23
\* Every session but s is as it was: its lifecycle state, message log,
\* queue, tracker maps and log lines, and where its async functions stand.
OthersUnchanged(s) ==
    \A t \in SessionIds \ {s} : session'[t] = session[t] /\ proc'[t] = proc[t]

\* The session a call of enqueueUserMessage is made for.
EnqueueOf(id) == IF id = NoSession THEN activeSessionId ELSE id

\* The step is a generator step, a runtime event, a loop exit or an
\* interrupt step of session s.
StepOfSession(s) ==
    \/ RuntimePull(s) \/ GenDequeue(s)
    \/ PairEvent(s) \/ StreamRaise(s)
    \/ InterruptCall(s) \/ InterruptReturn(s, TRUE) \/ InterruptReturn(s, FALSE)

\* C23: with two sessions side by side, every enqueue, runtime event,
\* interrupt and loop exit of one session leaves every other session
\* unchanged: lifecycle state, message log, queue, tracker maps and
\* log-line ring.
C23_OtherSessionsUnchanged ==
    [][/\ \A id \in PairSessions \cup {NoSession} :
              OthersUnchanged(EnqueueOf(id)) \/ ~PairEnqueue(<<"h", "i", " ">>, id)
       /\ \A s \in PairSessions : OthersUnchanged(s) \/ ~StepOfSession(s)]_vars

\* Both sessions stream at once: the second has just taken a tool start
\* while the first is running with its loop live.
C23_Witness ==
    /\ proc[FirstSession].activeLoops > 0
    /\ session[FirstSession].sessionState = "running"
    /\ proc[FirstSession + 1].activeLoops > 0
    /\ \E i \in 1..Len(out) : out[i].type = "chat:tool-use-start" /\ out[i].sid = FirstSession + 1

\* ---------------------------------------------------------------- C24
\* The ring holds the newest lines of the n appended so far, oldest first.
RingIsRecent(S, n) ==
    /\ Len(S.logLines) <= LogLineLimit
    /\ Len(S.logLines) = Min(n, LogLineLimit)
    /\ \A i \in 1..Len(S.logLines) : S.logLines[i] = n - Len(S.logLines) + i

\* C24: after any number n of appendLogLine calls the log-line ring of a
\* session holds at most 2000 lines and is the most recent min(n, 2000)
\* appended lines in arrival order.
C24_LogRingHoldsRecentLines ==
    RingIsRecent(session[FirstSession], proc[FirstSession].events)

\* The ring has overflowed twice: it is full and its oldest line is the
\* third one appended.
C24_Witness ==
    /\ proc[FirstSession].events = LogLineLimit + 2
    /\ Len(session[FirstSession].logLines) = LogLineLimit
    /\ session[FirstSession].logLines[1] = 3
    /\ session[FirstSession].logLines[LogLineLimit] = LogLineLimit + 2

\* ---------------------------------------------------------------- C25
\* The notification is among those of o.
Notified(o, type, sid) == \E i \in 1..Len(o) : o[i].type = type /\ o[i].sid = sid

\* session:created goes out exactly when a session is created, for it.
CreatedNotified ==
    \A id \in SessionIds :
        Notified(out', "session:created", id)
            <=> (created' # created /\ id = created' /\ Known(id)')

\* session:deleted goes out exactly when a session leaves the registry, and
\* first; session:switched follows it when the active pointer is re-pointed.
DeletedNotified ==
    \A id \in SessionIds :
        /\ Notified(out', "session:deleted", id) <=> (Known(id) /\ ~Known(id)')
        /\ (Known(id) /\ ~Known(id)') =>
               /\ out'[1] = Bc("session:deleted", id, "", 0)
               /\ IF activeSessionId = id /\ activeSessionId' # NoSession
                  THEN out' = <<out'[1], Bc("session:switched", activeSessionId', "", 0)>>
                  ELSE out' = <<out'[1]>>

\* session:switched goes out with every successful switch, and only for a
\* registered session the active pointer then names.
SwitchedNotified ==
    \A id \in SessionIds :
        /\ (SwitchSession(id) /\ Known(id)) => Notified(out', "session:switched", id)
        /\ Notified(out', "session:switched", id) => (activeSessionId' = id /\ Known(id)')

\* session:updated goes out exactly with the first user turn of a session.
UpdatedNotified ==
    \A id \in SessionIds :
        Notified(out', "session:updated", id)
            <=> /\ session[id].messages = <<>>
                /\ Len(session'[id].messages) = 1
                /\ Notified(out', "chat:message-replay", id)

\* C25: every registry operation that changes the registry emits its
\* lifecycle notification, and an operation that fails emits none: a
\* create session:created, a delete session:deleted (then session:switched
\* when the active pointer is re-pointed), a successful switch
\* session:switched, the first user turn of a session session:updated.
C25_LifecycleNotifications ==
    [][CreatedNotified /\ DeletedNotified /\ SwitchedNotified /\ UpdatedNotified]_vars

\* The active session, which had taken its first user turn and gone idle,
\* was deleted: the deletion and the switch to the remaining session were
\* notified in this order.
C25_Witness ==
    /\ Len(out) = 2
    /\ out[1].type = "session:deleted"
    /\ out[2].type = "session:switched"
    /\ activeSessionId = out[2].sid
    /\ session[out[1].sid].messages # <<>>
    /\ session[out[1].sid].name # DefaultName

\* ---------------------------------------------------------------- C26
\* The last message of the log is the assistant message the current turn
\* cycle is streaming into.
StreamingLast(S) ==
    Len(S.messages) > 0 /\ LastMessage(S).role = "assistant" /\ S.isStreamingMessage

\* The content a text delta makes of the streaming message's content: the
\* chunk goes to the end of the last segment when that is text (a string
\* content being its one text segment), else into a new last segment.
WithText(a, chunk) ==
    IF a.isString THEN StringContent(a.text \o chunk)
    ELSE IF a.blocks # <<>> /\ a.blocks[Len(a.blocks)].type = "text"
    THEN [a EXCEPT !.blocks[Len(a.blocks)].text = @ \o chunk]
    ELSE [a EXCEPT !.blocks = Append(@, TextBlock(chunk))]

\* What a text delta does to the log.
TextDeltaApplied(S, T, chunk) ==
    LET n == Len(S.messages) IN
    IF StreamingLast(S)
    THEN /\ T.messages = [S.messages EXCEPT ![n].content = WithText(@, chunk)]
    ELSE /\ Len(T.messages) = n + 1
         /\ SubSeq(T.messages, 1, n) = S.messages
         /\ T.messages[n + 1].role = "assistant"
         /\ T.messages[n + 1].content = StringContent(chunk)

\* A turn cycle ends with its terminal result, with the error turn of a
\* failed stream or with a user turn behind its assistant message: after
\* such a step the log's last message is not one that is streamed into.
CycleClosed(o, T) ==
    (\E i \in 1..Len(o) :
         o[i].type \in {"chat:message-complete", "chat:message-error", "chat:message-replay"})
        => ~StreamingLast(T)

\* Streaming begins with a new assistant message alone.
CycleOpened(S, T) ==
    (StreamingLast(T) /\ ~StreamingLast(S)) =>
        /\ Len(T.messages) = Len(S.messages) + 1
        /\ T.messages[Len(T.messages)].id = S.messageSequence

\* C26: a text delta without parent tool id goes to the end of the last
\* segment of the streaming assistant message when that segment is text,
\* else into a new text segment behind the others; when the last message
\* of the log is not an assistant message of the current turn cycle (first
\* delta of the cycle, after a terminal result, an error turn or a user
\* turn) a new assistant message is created first, so that no text reaches
\* an assistant message of a finished cycle.
C26_TextDeltaGoesToCurrentTurn ==
    [][\A s \in SessionIds :
          /\ (\E i \in 1..Len(out') : out'[i].type = "chat:message-chunk" /\ out'[i].sid = s)
                 => TextDeltaApplied(session[s], session'[s], <<"t">>)
          /\ CycleClosed(out', session'[s])
          /\ CycleOpened(session[s], session'[s])]_vars

\* The second turn's text follows the first turn's terminal result with
\* both user turns ahead in the log: it opened an assistant message of its
\* own behind the finished one.
C26_Witness ==
    /\ Len(session[FirstSession].messages) = 4
    /\ session[FirstSession].messages[3].role = "assistant"
    /\ session[FirstSession].messages[3].content = StringContent(<<"t">>)
    /\ session[FirstSession].messages[4].role = "assistant"
    /\ session[FirstSession].messages[4].content = StringContent(<<"t">>)
    /\ \E i \in 1..Len(out) : out[i].type = "chat:message-chunk"

\* ---------------------------------------------------------------- C27
\* The position of the newest open reasoning segment of that stream index,
\* 0 when there is none.
LastOpenThinking(blocks, index) ==
    LastOf({k \in 1..Len(blocks) : OpenThinking(blocks[k], index)})

\* What a reasoning delta does to the streaming message: its text goes to
\* the newest open reasoning segment of its index and to nothing else.
ThinkingDeltaApplied(S, T, index, delta) ==
    LET n == Len(S.messages)
        k == LastOpenThinking(S.messages[n].content.blocks, index)
    IN (StreamingLast(S) /\ k > 0) =>
           T.messages = [S.messages EXCEPT ![n].content.blocks[k].text = @ \o delta]

\* C27: a reasoning delta with stream index i is appended to the most
\* recently opened reasoning segment of index i that is still incomplete,
\* also when several incomplete segments share the index; no other
\* segment, and no completed one, is changed by it.
C27_ThinkingDeltaGoesToNewestOpen ==
    [][\A s \in SessionIds : \A i \in 1..Len(out') :
          (out'[i].type = "chat:thinking-chunk" /\ out'[i].sid = s)
              => ThinkingDeltaApplied(session[s], session'[s], out'[i].n, <<"h">>)]_vars

\* ---------------------------------------------------------------- C28
\* The positions of the open reasoning segments of that stream index, over
\* the whole log.
OpenThinkingAt(S, index) ==
    UNION {{<<m, k>> : k \in {j \in 1..Len(S.messages[m].content.blocks) :
                                OpenThinking(S.messages[m].content.blocks[j], index)}} :
           m \in 1..Len(S.messages)}

\* C28: a reasoning delta that matches no incomplete reasoning segment is
\* dropped and leaves the message log alone: no message is added, no
\* content changes its representation, and the turn-sequence counter and
\* the streaming flag stay as they are.
C28_UnmatchedThinkingDeltaDropped ==
    [][\A s \in SessionIds : \A i \in 1..Len(out') :
          (/\ out'[i].type = "chat:thinking-chunk"
           /\ out'[i].sid = s
           /\ OpenThinkingAt(session[s], out'[i].n) = {})
              => /\ session'[s].messages = session[s].messages
                 /\ session'[s].messageSequence = session[s].messageSequence
                 /\ session'[s].isStreamingMessage = session[s].isStreamingMessage]_vars

\* ---------------------------------------------------------------- C29
\* C29: a reasoning segment opened by a reasoning start at stream index i
\* that is still open when a segment stop of index i arrives is marked
\* complete by that stop, whether or not the events carry a parent tool id
\* and whether or not a user turn was appended in between.
C29_StopCompletesThinking ==
    [][\A s \in SessionIds : \A ev \in ThinkingStops :
          (LoopStep(s, ev) /\ OpenThinkingAt(session[s], ev.index) # {})
              => \E p \in OpenThinkingAt(session[s], ev.index) :
                     session'[s].messages[p[1]].content.blocks[p[2]].isComplete]_vars

\* ---------------------------------------------------------------- C30
ToolStarts == {ev \in SubagentEvents : ev.type = "tool_use_start"}

\* The start ev opens a record in S: a top-level start always does, a
\* nested one where its parent's record exists and holds no call of its id.
OpensRecord(S, ev) ==
    \/ ev.parent = NoTool
    \/ /\ findToolBlockById(S, ev.parent) # <<0, 0>>
       /\ FirstCallById(ToolAt(S, findToolBlockById(S, ev.parent)).subagentCalls, ev.id) = 0

\* The raw-argument buffer of the record the start ev has opened in T: of
\* the last segment of the log for a top-level start, of the call in the
\* parent's record for a nested one.
StartedBuffer(T, ev) ==
    IF ev.parent = NoTool
    THEN LastMessage(T).content.blocks[Len(LastMessage(T).content.blocks)].tool.inputJson
    ELSE LET calls == ToolAt(T, findToolBlockById(T, ev.parent)).subagentCalls
         IN calls[FirstCallById(calls, ev.id)].inputJson

\* C30: every tool-invocation start, top-level or nested under a parent,
\* records the mapping from its stream index to its tool id and opens its
\* record with an empty raw-argument buffer: after the start, before any
\* argument delta, the buffer is the empty string.
C30_StartSeedsEmptyBuffer ==
    [][\A ev \in ToolStarts :
          (LoopStep(FirstSession, ev) /\ OpensRecord(session[FirstSession], ev))
              => /\ MapGet(session'[FirstSession].streamIndexToToolId, ev.index, NoTool) = ev.id
                 /\ StartedBuffer(session'[FirstSession], ev) = <<>>]_vars

\* ---------------------------------------------------------------- C31
\* The tools the runtime has open at a stream index, and for each of them,
\* where one ToolRecord alone carries its id, that record's buffer against
\* the text of all the deltas the runtime has sent for it.
BufferIsAllDeltas(S, P) ==
    \A i \in DOMAIN P.started :
        Cardinality({pos \in ToolPositions(S) : ToolAt(S, pos).id = P.started[i]}) = 1 =>
            \A pos \in ToolPositions(S) :
                ToolAt(S, pos).id = P.started[i] =>
                    ToolAt(S, pos).inputJson = MapGet(P.sentTo, P.started[i], <<>>)

\* C31: after a top-level tool start for id T at stream index i, the
\* buffer of T's ToolRecord equals the concatenation, in arrival order, of
\* all the argument deltas that came at index i since, also when a user
\* turn is enqueued or a terminal result arrives between the start and a
\* delta.
C31_BufferIsAllDeltasInOrder ==
    BufferIsAllDeltas(session[FirstSession], proc[FirstSession])

\* ---------------------------------------------------------------- C32
\* The tool starts a step has just reconciled, as <<stream index, id>>.
StartsHandled(o) ==
    {<<o[i].n, o[i].arg>> :
        i \in {j \in 1..Len(o) : o[j].type \in {"chat:tool-use-start", "chat:subagent-tool-use"}}}

\* From S to T the ToolRecords of S keep their buffers and structured
\* inputs.
InputsKept(S, T) ==
    \A pos \in ToolPositions(S) :
        /\ ToolAt(T, pos).inputJson = ToolAt(S, pos).inputJson
        /\ ToolAt(T, pos).parsedInput = ToolAt(S, pos).parsedInput

\* A start at a stream index points the index at its tool and leaves the
\* inputs of the tools known before as they were.
StartRepoints(S, T, o) ==
    \A st \in StartsHandled(o) :
        /\ MapGet(T.streamIndexToToolId, st[1], NoTool) = st[2]
        /\ InputsKept(S, T)

\* No delta is lost or misrouted: every buffer holds text of its own
\* deltas alone and the buffer of each open top-level tool holds all of
\* them.
NoDeltaLost(S, P) == OwnDeltasOnly(S) /\ BufferIsAllDeltas(S, P)

\* C32: a tool start at a stream index that was mapped to another tool id
\* points the index at the new tool and leaves the other tool's buffer and
\* structured input unchanged, and no delta is misrouted or lost; so a
\* nested start at index i does not keep later top-level argument deltas at
\* index i from the top-level tool that is open at i.
C32_IndexReuseLosesNoDelta ==
    /\ [][StartRepoints(session[FirstSession], session'[FirstSession], out')]_vars
    /\ [](NoDeltaLost(session[FirstSession], proc[FirstSession]))

\* ---------------------------------------------------------------- C33
\* The tool id an event brings a result for: a result delta names it as
\* the parent of its message, a result start or completion in its block.
ResultTarget(ev) == IF ev.type = "text_delta" THEN ev.parent ELSE ev.id

\* The events that carry a piece of a tool result.
ResultParts == {ev \in ResultEvents : ev.type # "tool_use_start"}

\* The id is known to S: a SubagentCall reached through the child-to-parent
\* mapping, or a top-level ToolRecord.
KnownTool(S, toolId) ==
    SubagentCallOf(S, toolId) # <<0, 0, 0>> \/ findToolBlockById(S, toolId) # <<0, 0>>

\* The record of a known id in T, at the place it has in S.
ResultRecord(S, T, toolId) ==
    LET at == SubagentCallOf(S, toolId) IN
    IF at # <<0, 0, 0>>
    THEN T.messages[at[1]].content.blocks[at[2]].tool.subagentCalls[at[3]]
    ELSE ToolAt(T, findToolBlockById(S, toolId))

\* The record is one that does not load: a top-level ToolRecord is never
\* marked so, a SubagentCall carries the flag.
NotLoading(rec) == "isLoading" \in DOMAIN rec => ~rec.isLoading

\* What the result event ev makes of the record of its tool, before and
\* after.
ResultApplied(before, after, ev) ==
    CASE ev.type = "tool_result_start" ->
             after.result = ev.text /\ after.isError = (ev.isError = <<TRUE>>)
      [] ev.type = "text_delta" ->
             /\ after.result = (IF before.result = Undefined THEN <<>> ELSE before.result) \o ev.text
             /\ after.isError = before.isError
      [] ev.type = "user" ->
             after.result = ev.text /\ after.isError = before.isError /\ NotLoading(after)
      [] ev.type = "assistant" ->
             after.result = ev.text /\ after.isError = (ev.isError = <<TRUE>>) /\ NotLoading(after)

\* C33: for a tool id known to the session (a top-level ToolRecord or a
\* SubagentCall reached through the child-to-parent mapping) a result start
\* sets the result text to its content and the error flag to its own, a
\* result delta appends its text to the result, and a completion replaces
\* the result text by its content, changes the error flag only when it
\* brings one and leaves the record not loading; so after a start, any
\* deltas and a completion with content c the result is c.
C33_ResultStartDeltaComplete ==
    [][\A ev \in ResultParts :
          (KnownTool(session[FirstSession], ResultTarget(ev)) /\ LoopStep(FirstSession, ev)) =>
              ResultApplied(
                  ResultRecord(session[FirstSession], session[FirstSession], ResultTarget(ev)),
                  ResultRecord(session[FirstSession], session'[FirstSession], ResultTarget(ev)),
                  ev)]_vars

\* The result of c1 started as an error, took a delta and was completed
\* by a user message: the call under t1 holds the completion's content
\* alone, still marked as an error, and does not load.
C33_Witness ==
    LET S == session[FirstSession]
    IN /\ S.logLines = <<"tool_use_start", "tool_result_start", "text_delta", "user">>
       /\ \E pos \in ToolPositions(S) :
              /\ ToolAt(S, pos).id = "t1"
              /\ Len(ToolAt(S, pos).subagentCalls) = 1
              /\ ToolAt(S, pos).subagentCalls[1].id = "c1"
              /\ ToolAt(S, pos).subagentCalls[1].result = <<"c">>
              /\ ToolAt(S, pos).subagentCalls[1].isError
              /\ ~ToolAt(S, pos).subagentCalls[1].isLoading
       /\ \E i \in 1..Len(out) : out[i].type = "chat:subagent-tool-result-complete"

\* ---------------------------------------------------------------- C34
\* The positions of the calls with id toolId in a call list.
CallsById(calls, toolId) == {k \in 1..Len(calls) : calls[k].id = toolId}

\* The parent's record holds a placeholder for the child: a call of the
\* child's id that no start has named, under the parent as the lookup
\* finds it.
HasPlaceholder(S, parentId, childId) ==
    /\ findToolBlockById(S, parentId) # <<0, 0>>
    /\ \E k \in CallsById(ToolAt(S, findToolBlockById(S, parentId)).subagentCalls, childId) :
           ToolAt(S, findToolBlockById(S, parentId)).subagentCalls[k].name = PlaceholderName

\* The start ev of a child backfills the placeholder it finds in S: in T
\* the parent has one call of that id, with the start's name and input and
\* the placeholder's result.
Backfilled(S, T, ev) ==
    LET pos == findToolBlockById(S, ev.parent)
        before == ToolAt(S, pos).subagentCalls
        after == ToolAt(T, pos).subagentCalls
    IN /\ Cardinality(CallsById(after, ev.id)) = 1
       /\ \A k \in CallsById(after, ev.id) :
              /\ after[k].name = ev.text
              /\ after[k].input = ev.input
              /\ k \in CallsById(before, ev.id)
              /\ after[k].result = before[k].result
              /\ after[k].isError = before[k].isError

NestedStartsWithInput == {ev \in BackfillEvents : ev.type = "tool_use_start" /\ ev.parent # NoTool}

\* C34: when the start of child c under parent p arrives after a
\* placeholder SubagentCall for c was made under p, p's call list still
\* holds exactly one record with id c, with the name and the input of the
\* start event and with the result text the placeholder had.
C34_StartBackfillsPlaceholder ==
    [][\A ev \in NestedStartsWithInput :
          (HasPlaceholder(session[FirstSession], ev.parent, ev.id) /\ LoopStep(FirstSession, ev))
              => Backfilled(session[FirstSession], session'[FirstSession], ev)]_vars

\* The placeholder that held the result of c1 has just been named by a
\* start bringing the input {"k":1}: one call, the start's name and input,
\* the earlier result.
C34_Witness ==
    LET S == session[FirstSession]
    IN /\ S.logLines = <<"tool_use_start", "tool_result_start", "tool_use_start">>
       /\ \E pos \in ToolPositions(S) :
              /\ ToolAt(S, pos).id = "t1"
              /\ Len(ToolAt(S, pos).subagentCalls) = 1
              /\ ToolAt(S, pos).subagentCalls[1].id = "c1"
              /\ ToolAt(S, pos).subagentCalls[1].name = ToolName
              /\ ToolAt(S, pos).subagentCalls[1].input = <<"{", "\"", "k", "\"", ":", "1", "}">>
              /\ ToolAt(S, pos).subagentCalls[1].result = <<"r">>
       /\ \E i \in 1..Len(out) : out[i].type = "chat:subagent-tool-use"

\* ---------------------------------------------------------------- C35
\* Every argument buffer of S with its cached structured input: those of
\* the top-level ToolRecords and of their SubagentCalls, by position.
InputCaches(S) ==
    [pos \in ToolPositions(S) |->
        <<[inputJson |-> ToolAt(S, pos).inputJson, parsedInput |-> ToolAt(S, pos).parsedInput]>>
        \o [k \in 1..Len(ToolAt(S, pos).subagentCalls) |->
               [inputJson |-> ToolAt(S, pos).subagentCalls[k].inputJson,
                parsedInput |-> ToolAt(S, pos).subagentCalls[k].parsedInput]]]

\* The runtime events a step has reconciled, by the log lines it wrote.
EventsLogged(o) == {o[i].arg : i \in {j \in 1..Len(o) : o[j].type = "chat:log"}}

\* The parse the event makes of a buffer fails: the incremental parse on a
\* delta, the strict parse at a segment stop.
ParseFails(type, inputJson) ==
    IF type = "input_json_delta" THEN ~JsonTruthy(parsePartialJson(inputJson))
    ELSE ~JsonParse(inputJson).ok

\* From S to T, a step of an event of that type: every buffer whose parse
\* fails keeps the structured input it had, or stays without one.
FailedParseKeepsInput(S, T, type) ==
    LET before == InputCaches(S)
        after == InputCaches(T)
    IN \A pos \in DOMAIN before :
           \A k \in 1..Len(before[pos]) :
               ParseFails(type, after[pos][k].inputJson) =>
                   after[pos][k].parsedInput = before[pos][k].parsedInput

\* The step leaves the lifecycle alone: the state as it was, no error
\* notification, and no turn appended but an empty assistant message.
LifecycleUntouched(S, T, o) ==
    /\ T.sessionState = S.sessionState
    /\ T.sessionState # "error"
    /\ \A i \in 1..Len(o) : o[i].type # "chat:message-error"
    /\ \A i \in (Len(S.messages) + 1)..Len(T.messages) :
           /\ T.messages[i].role = "assistant"
           /\ T.messages[i].content \in {StringContent(<<>>), ArrayContent(<<>>)}

\* C35: malformed or partial tool arguments never change the session
\* lifecycle: on an argument delta whose incremental parse fails and on a
\* segment stop whose strict parse fails, every buffer keeps the structured
\* input cached before (or none), reconciliation does not fail, no error
\* turn is appended and the session does not move to the error state.
C35_MalformedArgumentsKeepLifecycle ==
    [][\A type \in EventsLogged(out') \cap {"input_json_delta", "content_block_stop"} :
          /\ FailedParseKeepsInput(session[FirstSession], session'[FirstSession], type)
          /\ LifecycleUntouched(session[FirstSession], session'[FirstSession], out')]_vars

\* A segment stop has just met the cut-short buffer of t1: the strict
\* parse fails and the best-effort value of the delta stays.
C35_Witness ==
    LET S == session[FirstSession]
    IN /\ S.logLines = <<"tool_use_start", "input_json_delta", "content_block_stop">>
       /\ \E pos \in ToolPositions(S) :
              /\ ToolAt(S, pos).inputJson = <<"{", "\"", "k">>
              /\ ~JsonParse(ToolAt(S, pos).inputJson).ok
              /\ ToolAt(S, pos).parsedInput = <<"{", "}">>
       /\ S.sessionState = "running"

\* ---------------------------------------------------------------- C36
\* The ids carried by the message-replay notifications of o, in order.
ReplayedIds(o) ==
    LET at == {i \in 1..Len(o) : o[i].type = "chat:message-replay"}
        RECURSIVE Ids(_)
        Ids(i) == IF i > Len(o) THEN <<>>
                  ELSE (IF i \in at THEN <<o[i].n>> ELSE <<>>) \o Ids(i + 1)
    IN Ids(1)

\* The ids of the user turns the step from S to T appended, in order.
NewUserIds(S, T) ==
    LET RECURSIVE Ids(_)
        Ids(i) == IF i > Len(T.messages) THEN <<>>
                  ELSE (IF T.messages[i].role = "user" THEN <<T.messages[i].id>> ELSE <<>>)
                       \o Ids(i + 1)
    IN Ids(Len(S.messages) + 1)

\* The step broadcasts one message-replay per user turn it appends, with
\* the id the turn has in the log, and no other.
ReplayedOnceWithLogId(S, T, o) == ReplayedIds(o) = NewUserIds(S, T)

\* From c to d the hook took a message-replay of id: appended if the id
\* was not seen before, and else the list is as it was.
AppendedIfUnseen(c, d, id) ==
    d.messages = IF id \in c.seenIds THEN c.messages
                 ELSE Append(c.messages, ClientMessage(id, "user", TRUE, <<>>))

\* C36: each user turn is broadcast as a chat:message-replay exactly once,
\* with the id it has in the server log; the client hook appends a replayed
\* message only if its id was not seen before, so a message-replay that is
\* delivered again for an id already seen, any number of times, leaves the
\* client's message list unchanged.
C36_ReplayOnceAndIdempotent ==
    [][/\ ReplayedOnceWithLogId(session[FirstSession], session'[FirstSession], out')
       /\ \A id \in UserIds(session'[FirstSession]) :
              /\ ReplayedIds(out') = <<id>> => AppendedIfUnseen(client, client', id)
              /\ Redeliver(id) =>
                     /\ AppendedIfUnseen(client, client', id)
                     /\ id \in client.seenIds => client'.messages = client.messages]_vars

\* The replay of the first user turn was delivered twice more, and the
\* client holds the turn once.
C36_Witness ==
    /\ client.replays = 2
    /\ client.seenIds = {0}
    /\ Len(client.messages) = 1
    /\ client.messages[1] = ClientMessage(0, "user", TRUE, <<>>)
    /\ Len(session[FirstSession].messages) = 1

\* ---------------------------------------------------------------- C37
\* enqueueUserMessage has accepted the turn with that message id.
TurnAccepted(S, t) ==
    \E i \in 1..Len(S.messages) : S.messages[i].role = "user" /\ S.messages[i].id = t

\* A generator has yielded the turn, and its completion promise is resolved.
TurnCompleted(P, t) == t \in SeqToSet(P.yielded) /\ t \in P.resolved

\* C37: under fairness of the runtime (it keeps pulling input while its
\* stream is open) every user turn accepted by enqueueUserMessage is
\* eventually handed to the runtime and its completion promise eventually
\* resolves, also for a turn enqueued while the loop is still marked active
\* and its event stream is about to end or fail.
C37_AcceptedTurnCompletes ==
    \A t \in 0..(2 * MaxLiveTurns) :
        TurnAccepted(session[FirstSession], t) ~> TurnCompleted(proc[FirstSession], t)

\* ---------------------------------------------------------------- C38
\* The session was registered once and is no longer.
Deleted(s) == s \in 1..created /\ ~Known(s)

\* The step reconciles no runtime event into the session s (its message
\* log and its log lines are as they were) and broadcasts nothing that
\* carries the id s.
LeftAlone(s) ==
    /\ session'[s].messages = session[s].messages
    /\ session'[s].logLines = session[s].logLines
    /\ \A i \in 1..Len(out') : out'[i].sid # s

\* C38: after a session has been deleted from the registry no driving loop
\* of it remains live: no further runtime event is reconciled into it and
\* no further notification carrying its id is broadcast after
\* session:deleted.
C38_DeletedSessionIsQuiet ==
    /\ [](\A s \in SessionIds : Deleted(s) => proc[s].activeLoops = 0)
    /\ [][\A s \in SessionIds : Deleted(s) => LeftAlone(s)]_vars


\* ---------------------------------------------------------------- C39
\* The child c is mapped to a parent that is a top-level ToolRecord of the
\* log and holds a call of the id c.
MappedUnderParent(S, c) ==
    \E pos \in ToolPositions(S) :
        /\ ToolAt(S, pos).id = S.childToolToParent[c]
        /\ CallsById(ToolAt(S, pos).subagentCalls, c) # {}

\* No ToolRecord holds two calls of one id.
CallIdsUnique(S) ==
    \A pos \in ToolPositions(S) :
        \A j, k \in 1..Len(ToolAt(S, pos).subagentCalls) :
            ToolAt(S, pos).subagentCalls[j].id = ToolAt(S, pos).subagentCalls[k].id => j = k

\* C39: in every reachable state the child-to-parent mapping is consistent
\* with the log: a child id mapped to a parent p means that p is a top-level
\* ToolRecord whose subagentCalls hold a record of the child's id, and no
\* parent's subagentCalls hold two records of one id, for every order of
\* nested starts, placeholders and results.
C39_ChildMapConsistentWithLog ==
    LET S == session[FirstSession]
    IN /\ \A c \in DOMAIN S.childToolToParent : MappedUnderParent(S, c)
       /\ CallIdsUnique(S)

\* The result of c1 came before its start: the placeholder under t1, then
\* the start that names it, leave one call of c1 and the mapping to t1.
C39_Witness ==
    LET S == session[FirstSession]
    IN /\ S.logLines = <<"tool_use_start", "tool_result_start", "tool_use_start">>
       /\ DOMAIN S.childToolToParent = {"c1"}
       /\ S.childToolToParent["c1"] = "t1"
       /\ \E pos \in ToolPositions(S) :
              /\ ToolAt(S, pos).id = "t1"
              /\ Len(ToolAt(S, pos).subagentCalls) = 1
              /\ ToolAt(S, pos).subagentCalls[1].id = "c1"
              /\ ToolAt(S, pos).subagentCalls[1].name = ToolName


\* ---------------------------------------------------------------- C40
\* The kinds of the segments of a server message: of each block its type
\* and, for a tool_use block, the tool id; a text that is a plain string
\* counts as one text segment, an empty one as none.
ServerKinds(m) ==
    IF m.content.isString
    THEN IF m.content.text = <<>> THEN <<>> ELSE <<ClientBlock("text", NoTool)>>
    ELSE [k \in 1..Len(m.content.blocks) |->
             IF m.content.blocks[k].type = "tool_use"
             THEN ClientBlock("tool_use", m.content.blocks[k].tool.id)
             ELSE ClientBlock(m.content.blocks[k].type, NoTool)]

\* The same of a client message.
ClientKinds(m) == IF m.isString THEN <<ClientBlock("text", NoTool)>> ELSE m.blocks

\* The document of the server log and of the client's list: the roles of
\* the messages and, per assistant message, the kinds of its segments.
ServerDocument(S) ==
    [i \in 1..Len(S.messages) |->
        [role |-> S.messages[i].role,
         kinds |-> IF S.messages[i].role = "assistant" THEN ServerKinds(S.messages[i])
                   ELSE <<>>]]

ClientDocument(c) ==
    [i \in 1..Len(c.messages) |->
        [role |-> c.messages[i].role,
         kinds |-> IF c.messages[i].role = "assistant" THEN ClientKinds(c.messages[i])
                   ELSE <<>>]]

\* C40: a client that applies the session's notifications in delivery
\* order rebuilds the server's document: after every prefix of the event
\* stream its message list has the roles of the server's message log and,
\* per assistant message, the same segment kinds (text, reasoning, tool_use
\* with the same tool ids).
C40_ClientMirrorsServerLog ==
    ClientDocument(client) = ServerDocument(session[FirstSession])

====
